---- MODULE Spec2Model ----
(***************************************************************************)
(* The product discovery pipeline of agents/multi_agent_search.py:         *)
(* query generation, web search, information extraction, filtering and     *)
(* ranking, missing-price estimation, truncation to the top results.       *)
(*                                                                         *)
(* Python str values that the code inspects character by character (regex  *)
(* search, substring tests, float()) are sequences of one-character        *)
(* strings.  Python dicts are functions whose DOMAIN is the set of keys.   *)
(***************************************************************************)
EXTENDS Integers, Sequences, FiniteSets, TLC

VARIABLES
    entry,              \* the method under execution: "search", "filter_and_rank", ...
    pc,                 \* the statement the run is at
    requirements,       \* extracted_info / requirements dict
    use_llm,            \* filter_and_rank's use_llm argument
    queries,            \* generate_queries' return value
    qi,                 \* WebSearchAgent.search: number of queries already searched
    search_results,     \* all_results / search_results
    products,           \* extracted_products, the input of filter_and_rank
    pi,                 \* loop position inside the scoring and estimation loops
    scored_products,    \* _filter_and_rank_with_llm's scored_products
    ranked_products,    \* filter_and_rank's return value / the list the estimator walks
    llm_raised,         \* whether a scoring call raised during this run
    query_reply,        \* the response to generate_queries' text-generation call
    last_call,          \* the latest call to the search or text-generation capability
    outcome,            \* "running", "returned" or "raised"
    exception,          \* the exception that left the method ("" when none)
    result,             \* the returned list
    api_key,            \* BraveSearchProvider: whether api_key is set
    now,                \* time.time(), in ticks of half a second
    last_request_time,  \* BraveSearchProvider.last_request_time
    calls,              \* the calls of BraveSearchProvider.search under execution
    requests            \* the HTTP requests issued: how many, the time of the latest, and
                        \* the shortest time between two of them

\* The variables of the discovery pipeline and those of the search provider.
pipeline == <<entry, pc, requirements, use_llm, queries, qi, search_results, products,
              pi, scored_products, ranked_products, llm_raised, query_reply, last_call,
              outcome, exception, result>>

provider == <<api_key, now, last_request_time, calls, requests>>

vars == <<pipeline, provider>>

-----------------------------------------------------------------------------
(* Bounds of the model. *)

\* Most hits the search capability returns in one run, all queries together.
MaxHits == 6

\* Longest product list handed directly to filter_and_rank.
MaxProducts == 2

-----------------------------------------------------------------------------
(* Text helpers: the str operations the code uses. *)

Digits == {"0", "1", "2", "3", "4", "5", "6", "7", "8", "9"}

UpperToLower ==
    [c \in {"A","B","C","D","E","F","G","H","I","J","K","L","M",
            "N","O","P","Q","R","S","T","U","V","W","X","Y","Z"} |->
      CASE c = "A" -> "a" [] c = "B" -> "b" [] c = "C" -> "c" [] c = "D" -> "d"
        [] c = "E" -> "e" [] c = "F" -> "f" [] c = "G" -> "g" [] c = "H" -> "h"
        [] c = "I" -> "i" [] c = "J" -> "j" [] c = "K" -> "k" [] c = "L" -> "l"
        [] c = "M" -> "m" [] c = "N" -> "n" [] c = "O" -> "o" [] c = "P" -> "p"
        [] c = "Q" -> "q" [] c = "R" -> "r" [] c = "S" -> "s" [] c = "T" -> "t"
        [] c = "U" -> "u" [] c = "V" -> "v" [] c = "W" -> "w" [] c = "X" -> "x"
        [] c = "Y" -> "y" [] c = "Z" -> "z"]

\* str.lower()
Lower(s) ==
    [i \in 1..Len(s) |-> IF s[i] \in DOMAIN UpperToLower THEN UpperToLower[s[i]] ELSE s[i]]

\* sub in s
Contains(s, sub) ==
    \E i \in 1..(Len(s) - Len(sub) + 1) : SubSeq(s, i, i + Len(sub) - 1) = sub

IsSpace(c) == c \in {" ", "\n", "\t"}

\* str.strip()
Strip(s) ==
    LET keep == {i \in 1..Len(s) : ~IsSpace(s[i])}
    IN  IF keep = {} THEN <<>>
        ELSE SubSeq(s, CHOOSE i \in keep : \A j \in keep : i <= j,
                       CHOOSE i \in keep : \A j \in keep : j <= i)

\* Number of leading characters of s, from position i on, that lie in set.
RECURSIVE RunLength(_, _, _)
RunLength(s, i, set) ==
    IF i <= Len(s) /\ s[i] \in set THEN 1 + RunLength(s, i + 1, set) ELSE 0

Min(a, b) == IF a <= b THEN a ELSE b

\* The smallest member of a non-empty set of integers, 0 for the empty set.
Least(S) == IF S = {} THEN 0 ELSE CHOOSE i \in S : \A j \in S : i <= j

-----------------------------------------------------------------------------
(* InformationExtractionAgent: the deterministic (pattern) strategy. *)

PRICE_NOT_SPECIFIED ==
    <<"P","r","i","c","e"," ","n","o","t"," ","s","p","e","c","i","f","i","e","d">>

PRICE_NOT_AVAILABLE ==
    <<"P","r","i","c","e"," ","n","o","t"," ","a","v","a","i","l","a","b","l","e">>

DELIVERY_NOT_SPECIFIED ==
    <<"D","e","l","i","v","e","r","y"," ","t","i","m","e"," ","n","o","t"," ","s","p","e","c","i","f","i","e","d">>

\* Index just past the longest match of \d{1,3}(?:,\d{3})*(?:\.\d{2})? that starts
\* at position i of s; s[i] is a digit.  Every quantifier is greedy and what
\* follows it may match the empty string, so the greedy choice is the match.
RECURSIVE ThousandsEnd(_, _)
ThousandsEnd(s, j) ==
    IF j <= Len(s) /\ s[j] = "," /\ RunLength(s, j + 1, Digits) >= 3
    THEN ThousandsEnd(s, j + 4)
    ELSE j

AmountEnd(s, i) ==
    LET j == i + Min(3, RunLength(s, i, Digits))
        k == ThousandsEnd(s, j)
    IN  IF k <= Len(s) /\ s[k] = "." /\ RunLength(s, k + 1, Digits) >= 2
        THEN k + 3
        ELSE k

\* The price patterns in their priority order (lines 145-152).  Each is a literal
\* prefix, matched case-insensitively (re.IGNORECASE), followed by the captured
\* amount; "loose" patterns allow \s*\$? between the two.
PricePatterns ==
    << [prefix |-> <<"a","u","d">>, loose |-> TRUE],
       [prefix |-> <<"$">>, loose |-> FALSE],
       [prefix |-> <<"p","r","i","c","e",":">>, loose |-> TRUE],
       [prefix |-> <<"c","o","s","t",":">>, loose |-> TRUE],
       [prefix |-> <<"f","r","o","m">>, loose |-> TRUE],
       [prefix |-> <<"s","t","a","r","t","i","n","g"," ","a","t">>, loose |-> TRUE] >>

\* Where the captured amount starts when pattern p matches s at position i, else 0.
AmountStart(p, s, i) ==
    LET j == i + Len(p.prefix)
        k == j + RunLength(s, j, {" ", "\n", "\t"})
        m == IF p.loose THEN (IF k <= Len(s) /\ s[k] = "$" THEN k + 1 ELSE k) ELSE j
    IN  IF j - 1 <= Len(s) /\ Lower(SubSeq(s, i, j - 1)) = p.prefix
           /\ m <= Len(s) /\ s[m] \in Digits
        THEN m
        ELSE 0

\* re.search(pattern, text, re.IGNORECASE): group(1) of the leftmost match, or <<>>.
SearchAmount(p, s) ==
    LET at == {i \in 1..Len(s) : AmountStart(p, s, i) # 0}
    IN  IF at = {} THEN <<>>
        ELSE LET m == AmountStart(p, s, Least(at))
             IN  SubSeq(s, m, AmountEnd(s, m) - 1)

\* _extract_price_with_patterns taking the pattern whose match begins first in
\* the text.
extract_price_leftmost(text) ==
    LET start(n) == Least({i \in 1..Len(text) : AmountStart(PricePatterns[n], text, i) # 0})
        hits == {n \in 1..Len(PricePatterns) : start(n) # 0}
        first == CHOOSE n \in hits : \A m \in hits : start(n) <= start(m)
    IN  IF hits = {} THEN PRICE_NOT_SPECIFIED
        ELSE <<"$">> \o SearchAmount(PricePatterns[first], text)

\* _extract_price_with_patterns: the first pattern, in list order, that matches.
extract_price_with_patterns(text) ==
    LET hits == {n \in 1..Len(PricePatterns) : SearchAmount(PricePatterns[n], text) # <<>>}
    IN  IF hits = {} THEN PRICE_NOT_SPECIFIED
        ELSE <<"$">> \o SearchAmount(PricePatterns[Least(hits)], text)

\* Index of the first "\n" of s at or after position k, Len(s) + 1 when there is none.
RECURSIVE LineEnd(_, _)
LineEnd(s, k) ==
    IF k <= Len(s) /\ s[k] # "\n" THEN LineEnd(s, k + 1) ELSE k

SpecKeys ==
    << "brand", "model", "color", "size", "weight", "dimensions", "warranty", "condition" >>

SpecLabels ==
    [brand |-> <<"b","r","a","n","d",":">>, model |-> <<"m","o","d","e","l",":">>, color |-> <<"c","o","l","o","r",":">>, size |-> <<"s","i","z","e",":">>,
     weight |-> <<"w","e","i","g","h","t",":">>, dimensions |-> <<"d","i","m","e","n","s","i","o","n","s",":">>,
     warranty |-> <<"w","a","r","r","a","n","t","y",":">>, condition |-> <<"c","o","n","d","i","t","i","o","n",":">>]

\* r'<Label>:\s*([^\n]+)' at position i of s: [ok, value] with value = group(1).strip().
\* When \s* runs to the end of the text the engine gives back white space that is
\* not a line break to [^\n]+, and the stripped capture is empty.
SpecMatchAt(label, s, i) ==
    LET j == i + Len(label)
        k == j + RunLength(s, j, {" ", "\n", "\t"})
    IN  IF ~(j - 1 <= Len(s) /\ Lower(SubSeq(s, i, j - 1)) = label)
        THEN [ok |-> FALSE, value |-> <<>>]
        ELSE IF k <= Len(s)
        THEN [ok |-> TRUE, value |-> Strip(SubSeq(s, k, LineEnd(s, k) - 1))]
        ELSE [ok |-> \E m \in j..Len(s) : s[m] # "\n", value |-> <<>>]

\* _extract_specs_with_patterns: one entry per label found in the description.
extract_specs_with_patterns(description) ==
    LET found(key) == {i \in 1..Len(description) : SpecMatchAt(SpecLabels[key], description, i).ok}
        keys == {SpecKeys[n] : n \in {n \in 1..Len(SpecKeys) : found(SpecKeys[n]) # {}}}
    IN  [key \in keys |-> SpecMatchAt(SpecLabels[key], description, Least(found(key))).value]

\* The delivery patterns in priority order (lines 187-196): the first three are
\* '<verb> in \d+-\d+ days?', the others literal phrases.
DeliveryRangeVerbs ==
    << <<"d","e","l","i","v","e","r","y"," ","i","n"," ">>, <<"s","h","i","p","s"," ","i","n"," ">>, <<"a","r","r","i","v","e","s"," ","i","n"," ">> >>

DeliveryPhrases ==
    << <<"e","x","p","r","e","s","s"," ","d","e","l","i","v","e","r","y">>, <<"n","e","x","t"," ","d","a","y"," ","d","e","l","i","v","e","r","y">>, <<"f","r","e","e"," ","s","h","i","p","p","i","n","g">>, <<"s","t","a","n","d","a","r","d"," ","d","e","l","i","v","e","r","y">>, <<"p","r","i","o","r","i","t","y"," ","d","e","l","i","v","e","r","y">> >>

\* Index just past the match of '<verb>\d+-\d+ days?' at position i of s, else 0.
RangeEnd(verb, s, i) ==
    LET j  == i + Len(verb)
        d1 == RunLength(s, j, Digits)
        k  == j + d1 + 1
        d2 == RunLength(s, k, Digits)
        e  == k + d2
    IN  IF j - 1 <= Len(s) /\ SubSeq(s, i, j - 1) = verb
           /\ d1 >= 1 /\ k - 1 <= Len(s) /\ s[k - 1] = "-" /\ d2 >= 1
           /\ e + 3 <= Len(s) /\ SubSeq(s, e, e + 3) = <<" ", "d", "a", "y">>
        THEN (IF e + 4 <= Len(s) /\ s[e + 4] = "s" THEN e + 5 ELSE e + 4)
        ELSE 0

\* _extract_delivery_time_with_patterns: group(0) of the first pattern that matches
\* description.lower().
extract_delivery_time_with_patterns(description) ==
    LET s == Lower(description)
        at(n) == {i \in 1..Len(s) : RangeEnd(DeliveryRangeVerbs[n], s, i) # 0}
        ranges == {n \in 1..Len(DeliveryRangeVerbs) : at(n) # {}}
        phrases == {n \in 1..Len(DeliveryPhrases) : Contains(s, DeliveryPhrases[n])}
    IN  IF ranges # {}
        THEN LET n == Least(ranges)
                 i == Least(at(n))
             IN  SubSeq(s, i, RangeEnd(DeliveryRangeVerbs[n], s, i) - 1)
        ELSE IF phrases # {} THEN DeliveryPhrases[Least(phrases)]
        ELSE DELIVERY_NOT_SPECIFIED

\* dict.get(key, default)
Get(d, key, default) == IF key \in DOMAIN d THEN d[key] ELSE default

\* Python's None, which is no string: a field of a hit the capability left null.
None == << "None" >>

\* Line 125: `description + ' ' + title` raises TypeError when either is None.
extract_with_rules_raises(hit) ==
    \/ Get(hit, "description", <<>>) = None
    \/ Get(hit, "title", <<>>) = None

\* _extract_with_rules
extract_with_rules(hit) ==
    LET title == Get(hit, "title", <<>>)
        url == Get(hit, "url", <<>>)
        description == Get(hit, "description", <<>>)
        source == Get(hit, "source", <<>>)
    IN  [name |-> title,
         price |-> extract_price_with_patterns(description \o <<" ">> \o title),
         url |-> url,
         source |-> source,
         description |-> description,
         key_specs |-> extract_specs_with_patterns(description),
         delivery_time |-> extract_delivery_time_with_patterns(description)]

\* An extractor that emits a record for every hit list, the empty one too.
extract_info_placeholder(hits) ==
    << [name |-> <<"?">>, price |-> PRICE_NOT_SPECIFIED, url |-> <<"?">>,
        source |-> <<>>, description |-> <<>>, key_specs |-> <<>>,
        delivery_time |-> DELIVERY_NOT_SPECIFIED] >>

\* extract_info leaving its loop at the first hit that gives no record.
RECURSIVE extract_info_until_failure(_)
extract_info_until_failure(hits) ==
    IF hits = <<>> THEN <<>>
    ELSE IF extract_with_rules_raises(Head(hits)) THEN <<>>
    ELSE LET product_info == extract_with_rules(Head(hits))
         IN  IF product_info.name # <<>> /\ product_info.url # <<>>
                /\ product_info.url # None
             THEN <<product_info>> \o extract_info_until_failure(Tail(hits))
             ELSE <<>>

\* extract_info with use_llm = False, as MultiAgentProductSearch.search calls it:
\* a hit whose extraction raises is skipped (lines 112-113), and a record is
\* kept when its name and its url are truthy (neither empty nor None).
RECURSIVE extract_info(_)
extract_info(hits) ==
    IF hits = <<>> THEN <<>>
    ELSE IF extract_with_rules_raises(Head(hits)) THEN extract_info(Tail(hits))
    ELSE LET product_info == extract_with_rules(Head(hits))
         IN  (IF product_info.name # <<>> /\ product_info.url # <<>>
                 /\ product_info.url # None
              THEN <<product_info>> ELSE <<>>) \o extract_info(Tail(hits))

-----------------------------------------------------------------------------
(* InformationExtractionAgent: the assisted strategy, _extract_with_llm.     *)
(* json.loads is modelled on the JSON texts made of objects, strings without *)
(* escapes, non-negative integers, null and the empty array; a text with an  *)
(* escape or a non-empty array has no value in the model.                    *)

\* The index of the first character of s, from i on, that is no whitespace.
RECURSIVE SkipWs(_, _)
SkipWs(s, i) ==
    IF i <= Len(s) /\ IsSpace(s[i]) THEN SkipWs(s, i + 1) ELSE i

\* The index of the quote that closes the string whose text begins at i, 0 when
\* the string is not closed.
RECURSIVE StringEnd(_, _)
StringEnd(s, i) ==
    IF i > Len(s) THEN 0
    ELSE CASE s[i] = "\"" -> i
           [] s[i] \notin {"\"", "\\"} -> StringEnd(s, i + 1)

\* json.JSONDecodeError
NoValue == [ok |-> FALSE]

Decoded(value, next) == [ok |-> TRUE, value |-> value, next |-> next]

JsonStr(chars) == [type |-> "str", chars |-> chars]

JsonDict(items) == [type |-> "dict", items |-> items]

JsonList == [type |-> "list"]

JsonInt(digits) == [type |-> "int", digits |-> digits]

JsonNull == [type |-> "NoneType"]

\* The string that opens at i and closes at e.
JsonStringAt(s, i, e) ==
    IF e = 0 THEN NoValue ELSE Decoded(JsonStr(SubSeq(s, i + 1, e - 1)), e + 1)

\* The integer whose n digits begin at i: a leading zero stands alone.
JsonIntAt(s, i, n) ==
    IF n > 1 /\ s[i] = "0" THEN Decoded(JsonInt(<<"0">>), i + 1)
    ELSE Decoded(JsonInt(SubSeq(s, i, i + n - 1)), i + n)

RECURSIVE JsonValue(_, _)
RECURSIVE JsonMembers(_, _, _)
RECURSIVE JsonMember(_, _, _, _)
RECURSIVE JsonMemberValue(_, _, _, _)
RECURSIVE JsonAfterMember(_, _, _)

\* The JSON value that begins at or after `at`, whitespace skipped.
JsonValueAt(s, i) ==
    IF i > Len(s) THEN NoValue
    ELSE IF s[i] = "\"" THEN JsonStringAt(s, i, StringEnd(s, i + 1))
    ELSE IF s[i] = "{" THEN JsonMembers(s, SkipWs(s, i + 1), <<>>)
    ELSE IF s[i] = "["
    THEN CASE SkipWs(s, i + 1) > Len(s) -> NoValue
           [] SkipWs(s, i + 1) <= Len(s) /\ s[SkipWs(s, i + 1)] = "]" ->
                 Decoded(JsonList, SkipWs(s, i + 1) + 1)
    ELSE IF s[i] \in Digits THEN JsonIntAt(s, i, RunLength(s, i, Digits))
    ELSE IF SubSeq(s, i, Min(i + 3, Len(s))) = <<"n","u","l","l">> THEN Decoded(JsonNull, i + 4)
    ELSE NoValue

JsonValue(s, at) ==
    JsonValueAt(s, SkipWs(s, at))

\* The members of an object from j on (whitespace skipped), after `items`.
JsonMembers(s, j, items) ==
    IF j > Len(s) THEN NoValue
    ELSE IF s[j] = "}" /\ items = <<>> THEN Decoded(JsonDict(items), j + 1)
    ELSE IF s[j] = "\"" THEN JsonMember(s, j, StringEnd(s, j + 1), items)
    ELSE NoValue

\* One member whose key opens at j and closes at e.
JsonMember(s, j, e, items) ==
    IF e = 0 THEN NoValue
    ELSE IF SkipWs(s, e + 1) > Len(s) \/ s[SkipWs(s, e + 1)] # ":" THEN NoValue
    ELSE JsonMemberValue(s, SubSeq(s, j + 1, e - 1), JsonValue(s, SkipWs(s, e + 1) + 1), items)

\* A later member with the same key replaces the earlier one.
JsonMemberValue(s, key, decoded, items) ==
    IF ~decoded.ok THEN NoValue
    ELSE JsonAfterMember(s, SkipWs(s, decoded.next),
                         [k \in DOMAIN items \cup {key} |->
                             IF k = key THEN decoded.value ELSE items[k]])

JsonAfterMember(s, d, items) ==
    IF d > Len(s) THEN NoValue
    ELSE IF s[d] = "}" THEN Decoded(JsonDict(items), d + 1)
    ELSE IF s[d] = "," /\ SkipWs(s, d + 1) <= Len(s) /\ s[SkipWs(s, d + 1)] = "\""
    THEN JsonMembers(s, SkipWs(s, d + 1), items)
    ELSE NoValue

\* A decoded value that is followed by nothing but whitespace.
WholeText(s, decoded) ==
    IF decoded.ok /\ SkipWs(s, decoded.next) > Len(s) THEN decoded ELSE NoValue

\* json.loads(response)
json_loads(s) ==
    WholeText(s, JsonValue(s, 1))

\* The dict keys the model knows, as Python str and as keys of a function.
DictKeys ==
    { [chars |-> <<"n","a","m","e">>, key |-> "name"],
      [chars |-> <<"p","r","i","c","e">>, key |-> "price"],
      [chars |-> <<"u","r","l">>, key |-> "url"],
      [chars |-> <<"s","o","u","r","c","e">>, key |-> "source"],
      [chars |-> <<"d","e","s","c","r","i","p","t","i","o","n">>, key |-> "description"],
      [chars |-> <<"k","e","y","_","s","p","e","c","s">>, key |-> "key_specs"],
      [chars |-> <<"d","e","l","i","v","e","r","y","_","t","i","m","e">>, key |-> "delivery_time"],
      [chars |-> <<"b","r","a","n","d">>, key |-> "brand"],
      [chars |-> <<"R","A","M">>, key |-> "RAM"] }

KeyOf(chars) == (CHOOSE k \in DictKeys : k.chars = chars).key

CharsOf(key) == (CHOOSE k \in DictKeys : k.key = key).chars

\* The Python value of a decoded member: a str, a dict or None.
RECURSIVE PyField(_)
PyField(v) ==
    CASE v.type = "str" -> v.chars
      [] v.type = "NoneType" -> None
      [] v.type = "dict" ->
            [key \in {KeyOf(chars) : chars \in DOMAIN v.items} |->
                PyField(v.items[CharsOf(key)])]

\* bool(value) of a decoded value.
JsonTruthy(v) ==
    CASE v.type = "str" -> v.chars # <<>>
      [] v.type = "dict" -> DOMAIN v.items # {}
      [] v.type = "int" -> v.digits # <<"0">>
      [] v.type = "list" -> FALSE
      [] v.type = "NoneType" -> FALSE

\* bool(value.get(key)) of a decoded dict.
JsonGetTruthy(v, key) ==
    /\ CharsOf(key) \in DOMAIN v.items
    /\ JsonTruthy(v.items[CharsOf(key)])

\* The Python value json.loads returns, with its type and what line 110 reads of
\* it: its truth value and those of its name and url.
PyValue(v) ==
    [type |-> v.type,
     value |-> IF v.type \in {"str", "dict"} THEN PyField(v) ELSE v,
     truthy |-> JsonTruthy(v),
     has_name |-> v.type = "dict" /\ JsonGetTruthy(v, "name"),
     has_url |-> v.type = "dict" /\ JsonGetTruthy(v, "url")]

\* The except clause running the deterministic extraction instead.
extract_with_llm_except_by_rules(hit) ==
    extract_with_rules(hit)

\* Lines 257-266: the record of the except clause.
extract_with_llm_except(hit) ==
    [name |-> Get(hit, "title", <<>>),
     price |-> PRICE_NOT_SPECIFIED,
     url |-> Get(hit, "url", <<>>),
     source |-> Get(hit, "source", <<>>),
     description |-> Get(hit, "description", <<>>),
     key_specs |-> <<>>,
     delivery_time |-> DELIVERY_NOT_SPECIFIED]

\* Lines 250-266 once the call has answered or raised.
DecodedOrExcept(hit, decoded) ==
    IF decoded.ok THEN PyValue(decoded.value)
    ELSE [type |-> "dict",
          value |-> extract_with_llm_except(hit),
          truthy |-> TRUE,
          has_name |-> Get(hit, "title", <<>>) \notin {<<>>, None},
          has_url |-> Get(hit, "url", <<>>) \notin {<<>>, None}]

\* _extract_with_llm(result), given what the text-generation call does.
extract_with_llm(hit, reply) ==
    DecodedOrExcept(hit, IF reply.kind = "text" THEN json_loads(reply.text) ELSE NoValue)

\* Lines 110-113 for one product_info: a falsy value is passed over, .get on a
\* value that is no dict raises and the hit is skipped, and a dict is appended
\* when its name and its url are truthy.
Appended(product_info) ==
    IF /\ product_info.truthy
       /\ product_info.type = "dict"
       /\ product_info.has_name
       /\ product_info.has_url
    THEN << product_info.value >>
    ELSE <<>>

-----------------------------------------------------------------------------
(* Scores.  relevance_score is a binary64 float.  The model holds a score as *)
(* an integer number of ScoreUnit-ths: 10000 times the decimal value, plus   *)
(* the signed rounding error (one unit) of a float sum that is not the float *)
(* nearest its decimal value, so that the order of the floats is kept:       *)
(* 0.2 + 0.1 = 0.30000000000000004 is 3001, 0.7 + 0.1 = 0.7999999999999999   *)
(* is 7999.                                                                  *)

ScoreUnit == 10000

\* The value of a string of digits.
RECURSIVE DigitsValue(_)
DigitsValue(s) ==
    IF s = <<>> THEN 0
    ELSE 10 * DigitsValue(SubSeq(s, 1, Len(s) - 1))
         + (CHOOSE d \in 0..9 : ToString(d) = s[Len(s)])

RECURSIVE Pow10(_)
Pow10(n) == IF n = 0 THEN 1 ELSE 10 * Pow10(n - 1)

\* float(text) for text made of digits and at most one ".": [ok, num, den] with
\* value num/den, ok = FALSE for the ValueError of a text float() rejects.
ParseDecimal(s) ==
    LET dots == {i \in 1..Len(s) : s[i] = "."}
        dot == IF dots = {} THEN Len(s) + 1 ELSE Least(dots)
        whole == SubSeq(s, 1, dot - 1)
        frac == SubSeq(s, dot + 1, Len(s))
    IN  IF Cardinality(dots) > 1 \/ Len(whole) + Len(frac) = 0
           \/ \E i \in 1..Len(s) : s[i] \notin Digits \cup {"."}
        THEN [ok |-> FALSE, num |-> 0, den |-> 1]
        ELSE [ok |-> TRUE, num |-> DigitsValue(whole \o frac), den |-> Pow10(Len(frac))]

\* float(response.strip()) of a scoring response (line 340): "ValueError", "nan"
\* (every comparison with it is false), or "num" with the score in units.  The
\* responses drawn have at most four decimals and no exponent.
ParseScore(response) ==
    LET s == Strip(response)
        signed == s # <<>> /\ s[1] \in {"+", "-"}
        body == IF signed THEN Tail(s) ELSE s
        d == ParseDecimal(body)
    IN  IF Lower(body) = <<"n", "a", "n">> THEN [kind |-> "nan", units |-> 0]
        ELSE IF ~d.ok \/ d.den > ScoreUnit THEN [kind |-> "ValueError", units |-> 0]
        ELSE [kind |-> "num",
              units |-> (IF signed /\ s[1] = "-" THEN 0 - 1 ELSE 1) * d.num * (ScoreUnit \div d.den)]

\* Binary64 addition on the operands the weighted sum of line 442 meets: the sum
\* of the decimals, except where the rounded result is not the float nearest it.
FloatAdd(a, b) ==
    CASE a = 2000 /\ b = 1000 -> 3001
      [] a = 3001 /\ b = 1000 -> 4000
      [] a = 7000 /\ b = 1000 -> 7999
      [] OTHER -> a + b

\* sum(list), left to right from 0.
RECURSIVE FloatSum(_)
FloatSum(terms) ==
    IF terms = <<>> THEN 0
    ELSE FloatAdd(FloatSum(SubSeq(terms, 1, Len(terms) - 1)), terms[Len(terms)])

-----------------------------------------------------------------------------
(* ProductFilteringAndRankingAgent: the rule-based strategy. *)

product_indicators ==
    << <<"p","r","o","d","u","c","t">>,
       <<"i","t","e","m">>,
       <<"s","k","u">>,
       <<"i","d">>,
       <<"p","-">>,
       <<"p","r","o","d","-">>,
       <<"m","o","d","e","l","-">>,
       <<"v","a","r","i","a","n","t","-">>,
       <<"m","o","d","e","l">>,
       <<"v","a","r","i","a","n","t">>,
       <<"v","e","r","s","i","o","n">>,
       <<"e","d","i","t","i","o","n">>,
       <<"s","e","r","i","e","s">>,
       <<"g","e","n","e","r","a","t","i","o","n">> >>

category_indicators ==
    << <<"c","a","t","e","g","o","r","y">>,
       <<"c","o","l","l","e","c","t","i","o","n">>,
       <<"l","i","s","t">>,
       <<"s","e","a","r","c","h">>,
       <<"r","e","s","u","l","t","s">>,
       <<"s","h","o","p">>,
       <<"s","t","o","r","e">>,
       <<"b","r","o","w","s","e">>,
       <<"a","l","l","-">>,
       <<"p","r","o","d","u","c","t","s","-">>,
       <<"i","t","e","m","s","-">>,
       <<"l","a","p","t","o","p","s">>,
       <<"c","o","m","p","u","t","e","r","s">>,
       <<"p","h","o","n","e","s">>,
       <<"t","a","b","l","e","t","s">> >>

UpperAlnum ==
    DOMAIN UpperToLower \cup Digits

\* len(name.split()): the number of maximal runs of non-blank characters.
WordCount(s) ==
    Cardinality({i \in 1..Len(s) : ~IsSpace(s[i]) /\ (i = 1 \/ IsSpace(s[i - 1]))})

\* re.sub(r'[^\d.]', '', text)
RECURSIVE DigitsAndDots(_)
DigitsAndDots(s) ==
    IF s = <<>> THEN <<>>
    ELSE (IF Head(s) \in Digits \cup {"."} THEN <<Head(s)>> ELSE <<>>) \o DigitsAndDots(Tail(s))

\* Lines 383-409 with the url left out of the category-page test.
is_specific_product_url_unchecked(product) ==
    LET url == Lower(Get(product, "url", <<>>))
        name == Lower(Get(product, "name", <<>>))
        description == Lower(Get(product, "description", <<>>))
        has_product_id ==
            \E n \in 1..Len(product_indicators) :
                Contains(url, product_indicators[n]) \/ Contains(name, product_indicators[n])
        has_model_number ==
            \E i \in 1..Len(name) : RunLength(name, i, UpperAlnum) >= 4
        has_specific_details ==
            WordCount(name) >= 4 /\ \E i \in 1..Len(name) : name[i] \in Digits
        is_category_page ==
            \E n \in 1..Len(category_indicators) :
                \/ Contains(name, category_indicators[n])
                \/ Contains(description, category_indicators[n])
    IN  ~is_category_page /\ (has_product_id \/ has_model_number \/ has_specific_details)

\* Lines 383-409: is the hit the page of one product?
is_specific_product(product) ==
    LET url == Lower(Get(product, "url", <<>>))
        name == Lower(Get(product, "name", <<>>))
        description == Lower(Get(product, "description", <<>>))
        has_product_id ==
            \E n \in 1..Len(product_indicators) :
                Contains(url, product_indicators[n]) \/ Contains(name, product_indicators[n])
        has_model_number ==
            \E i \in 1..Len(name) : RunLength(name, i, UpperAlnum) >= 4
        has_specific_details ==
            WordCount(name) >= 4 /\ \E i \in 1..Len(name) : name[i] \in Digits
        is_category_page ==
            \E n \in 1..Len(category_indicators) :
                \/ Contains(url, category_indicators[n])
                \/ Contains(name, category_indicators[n])
                \/ Contains(description, category_indicators[n])
    IN  ~is_category_page /\ (has_product_id \/ has_model_number \/ has_specific_details)

\* Lines 411-418 without the brand.
product_relevance_by_type(product, reqs) ==
    LET name == Lower(Get(product, "name", <<>>))
        description == Lower(Get(product, "description", <<>>))
        product_type == Lower(Get(reqs, "product_type", <<>>))
    IN  Contains(name, product_type) \/ Contains(description, product_type)

\* Lines 411-418.
product_relevance(product, reqs) ==
    LET name == Lower(Get(product, "name", <<>>))
        description == Lower(Get(product, "description", <<>>))
        product_type == Lower(Get(reqs, "product_type", <<>>))
        brand == Lower(Get(reqs, "brand", <<>>))
        type_match == Contains(name, product_type) \/ Contains(description, product_type)
        brand_match == brand = <<>> \/ Contains(name, brand) \/ Contains(description, brand)
    IN  type_match /\ brand_match

\* abs(price - budget) / budget <= 0.2 in binary64 when the quotient of the two
\* decimals is exactly 0.2.  Integers are floats, their difference is exact and
\* the division rounds to the float 0.2; with a fraction the outcome rests on the
\* rounding of the operands, tabulated for the operands the model draws.
AtBoundary(p, b) ==
    IF p.den = 1 /\ b.den = 1 THEN TRUE
    ELSE CASE <<p.num, p.den, b.num, b.den>> = <<360, 100, 3, 1>> -> FALSE
           [] <<p.num, p.den, b.num, b.den>> = <<240, 100, 3, 1>> -> FALSE
           [] <<p.num, p.den, b.num, b.den>> = <<240, 100, 2, 1>> -> TRUE
           [] <<p.num, p.den, b.num, b.den>> = <<120, 100, 1, 1>> -> TRUE

\* Lines 420-429: abs(price - budget) / budget <= 0.2, False when either text is
\* rejected by float() or the budget is zero (the bare except).  Off the boundary
\* the quotient of the floats lies on the same side of 0.2 as that of the decimals.
price_match(product, reqs) ==
    LET budget == Get(reqs, "budget", <<>>)
        p == ParseDecimal(DigitsAndDots(product.price))
        b == ParseDecimal(DigitsAndDots(budget))
        diff == p.num * b.den - b.num * p.den
        gap == 5 * (IF diff < 0 THEN 0 - diff ELSE diff)
    IN  /\ budget # <<>>
        /\ product.price # PRICE_NOT_SPECIFIED
        /\ p.ok /\ b.ok /\ b.num # 0
        /\ IF gap = b.num * p.den THEN AtBoundary(p, b) ELSE gap < b.num * p.den

\* Lines 432-439.
location_match(product, reqs) ==
    LET location == Lower(Get(reqs, "location", <<>>))
    IN  location = <<>> \/ Contains(Lower(Get(product, "description", <<>>)), location)

requirements_match(product, reqs) ==
    LET name == Lower(Get(product, "name", <<>>))
        description == Lower(Get(product, "description", <<>>))
        special_reqs == Get(reqs, "special_requirements", <<>>)
    IN  \A n \in 1..Len(special_reqs) :
            Contains(name, Lower(special_reqs[n])) \/ Contains(description, Lower(special_reqs[n]))

\* The weights of lines 443-447, in units.
Weights == << 3000, 3000, 2000, 1000, 1000 >>

\* Lines 442-448.
quality_score(flags) ==
    FloatSum([n \in 1..Len(Weights) |-> IF flags[n] THEN Weights[n] ELSE 0])

\* The "medium" threshold lowered to 0.3.
overall_quality_medium_from_03(score) ==
    IF score >= 7000 THEN "high" ELSE IF score >= 3000 THEN "medium" ELSE "low"

\* Lines 450-454.
overall_quality(score) ==
    IF score >= 7000 THEN "high"
    ELSE IF score >= 4000 THEN "medium"
    ELSE "low"

\* ", ".join(reasons)
RECURSIVE Join(_)
Join(parts) ==
    IF Len(parts) = 1 THEN parts[1]
    ELSE (parts[1] \o ", ") \o Join(Tail(parts))

\* _generate_ranking_reason
generate_ranking_reason(evaluation) ==
    Join((IF evaluation.is_specific_product THEN <<"specific product page">> ELSE <<>>)
         \o (IF evaluation.product_relevance THEN <<"matches product requirements">> ELSE <<>>)
         \o (IF evaluation.price_match THEN <<"price within budget range">> ELSE <<>>)
         \o (IF evaluation.additional_factors.location_match
             THEN <<"available in specified location">> ELSE <<>>)
         \o (IF evaluation.additional_factors.requirements_match
             THEN <<"meets special requirements">> ELSE <<>>)
         \o << "overall quality: " \o evaluation.additional_factors.overall_quality >>)

\* The evaluation dict built from the five flags (lines 372-381, 442-454).
EvaluationOf(flags) ==
    [is_specific_product |-> flags[1],
     product_relevance |-> flags[2],
     price_match |-> flags[3],
     additional_factors |->
        [location_match |-> flags[4],
         requirements_match |-> flags[5],
         overall_quality |-> overall_quality(quality_score(flags))],
     quality_score |-> quality_score(flags)]

\* The evaluation dict of one product (lines 372-454).
Evaluation(product, reqs) ==
    EvaluationOf(<< is_specific_product(product), product_relevance(product, reqs),
                    price_match(product, reqs), location_match(product, reqs),
                    requirements_match(product, reqs) >>)

\* dict.update
Update(d, u) ==
    [k \in DOMAIN d \cup DOMAIN u |-> IF k \in DOMAIN u THEN u[k] ELSE d[k]]

\* The body of the try of lines 370-477 raises when a budget is given and the
\* product has no 'price' key; the product is then left as it was and skipped.
EvaluationRaises(product, reqs) ==
    Get(reqs, "budget", <<>>) # <<>> /\ "price" \notin DOMAIN product

\* product.update(...) of lines 460-467.
UpdatedWith(product, evaluation) ==
    Update(product,
           [relevance_score |-> evaluation.quality_score,
            ranking_reason |-> generate_ranking_reason(evaluation),
            is_specific_product |-> evaluation.is_specific_product,
            product_relevance |-> evaluation.product_relevance,
            price_match |-> evaluation.price_match,
            additional_factors |-> evaluation.additional_factors])

\* One product after the loop body of lines 369-477.
Evaluated(product, reqs) ==
    IF EvaluationRaises(product, reqs) THEN product
    ELSE UpdatedWith(product, Evaluation(product, reqs))

\* The test of lines 470-472 reduced to its score conjunct.
MinimumCriteriaScoreOnly(evaluation) ==
    evaluation.quality_score >= 3000

\* The test of lines 470-472 without its product_relevance conjunct.
MinimumCriteriaWithoutRelevance(evaluation) ==
    /\ evaluation.is_specific_product
    /\ evaluation.quality_score >= 3000

\* The test of lines 470-472.
MinimumCriteria(evaluation) ==
    /\ evaluation.is_specific_product
    /\ evaluation.product_relevance
    /\ evaluation.quality_score >= 3000

\* The product reaches filtered_products (lines 470-473).
MeetsMinimumCriteria(product, reqs) ==
    /\ ~EvaluationRaises(product, reqs)
    /\ MinimumCriteria(Evaluation(product, reqs))

\* A descending sort that puts an item ahead of the items that have its score, as
\* reversing an ascending stable sort does.
RECURSIVE SortedTiesReversed(_)
SortedTiesReversed(items) ==
    IF items = <<>> THEN <<>>
    ELSE LET front == SortedTiesReversed(SubSeq(items, 1, Len(items) - 1))
             x == items[Len(items)]
             ahead == Cardinality({i \in 1..Len(front) :
                                     front[i].relevance_score > x.relevance_score})
         IN  SubSeq(front, 1, ahead) \o <<x>> \o SubSeq(front, ahead + 1, Len(front))

\* sorted(items, key=relevance_score, reverse=True): descending, and stable
\* (equal keys keep their order).  An item is inserted behind every item whose
\* score is at least its own.
RECURSIVE SortedByScore(_)
SortedByScore(items) ==
    IF items = <<>> THEN <<>>
    ELSE LET front == SortedByScore(SubSeq(items, 1, Len(items) - 1))
             x == items[Len(items)]
             ahead == Cardinality({i \in 1..Len(front) :
                                     front[i].relevance_score >= x.relevance_score})
         IN  SubSeq(front, 1, ahead) \o <<x>> \o SubSeq(front, ahead + 1, Len(front))

\* filtered_products of lines 367-473, before the sort.
RECURSIVE Retained(_, _)
Retained(items, reqs) ==
    IF items = <<>> THEN <<>>
    ELSE (IF MeetsMinimumCriteria(Head(items), reqs) THEN <<Head(items)>> ELSE <<>>)
         \o Retained(Tail(items), reqs)

\* The input list after _filter_and_rank_with_rules: each product updated in place.
EvaluatedAll(items, reqs) ==
    [n \in 1..Len(items) |-> Evaluated(items[n], reqs)]

\* _filter_and_rank_with_rules' return value.
filter_and_rank_with_rules(items, reqs) ==
    SortedByScore(EvaluatedAll(Retained(items, reqs), reqs))

-----------------------------------------------------------------------------
(* ProductFilteringAndRankingAgent: the assisted strategy, one scoring call. *)

\* The threshold of line 355, in units.
MinScore == 100

\* Lines 333-350 with a response that is no number in [0, 1] scored 0 instead of
\* skipped.
ScoredProductDefaultZero(product, reply) ==
    LET score == ParseScore(reply.text)
    IN  IF reply.kind # "text" THEN <<>>
        ELSE IF score.kind = "num" /\ 0 <= score.units /\ score.units <= ScoreUnit
        THEN << Update(product, [relevance_score |-> score.units]) >>
        ELSE << Update(product, [relevance_score |-> 0]) >>

\* Lines 333-350 for one product and one outcome of generate_completion: the
\* product with its score when the response is a number in [0, 1], else <<>>
\* (ValueError, a comparison that fails, or the call raising: `continue`).
ScoredProduct(product, reply) ==
    LET score == ParseScore(reply.text)
    IN  IF reply.kind = "text" /\ score.kind = "num"
           /\ 0 <= score.units /\ score.units <= ScoreUnit
        THEN << Update(product, [relevance_score |-> score.units]) >>
        ELSE <<>>

\* Lines 352-358: the filter on scored_products and the sort.
RECURSIVE AtLeastMinScore(_)
AtLeastMinScore(items) ==
    IF items = <<>> THEN <<>>
    ELSE (IF Head(items).relevance_score >= MinScore THEN <<Head(items)>> ELSE <<>>)
         \o AtLeastMinScore(Tail(items))

RankScored(scored) ==
    SortedByScore(AtLeastMinScore(scored))

-----------------------------------------------------------------------------
(* MultiAgentProductSearch._estimate_missing_prices, one estimation call. *)

\* The whole response taken as the price.
SearchPriceWholeResponse(s) ==
    s

\* re.search(r'\$?\d{1,3}(?:,\d{3})*(?:\.\d{2})?', response): group(0) of the
\* leftmost match, <<>> when there is none.
SearchPrice(s) ==
    LET starts(i) == IF s[i] = "$" THEN i + 1 ELSE i
        at == {i \in 1..Len(s) : starts(i) <= Len(s) /\ s[starts(i)] \in Digits}
    IN  IF at = {} THEN <<>>
        ELSE SubSeq(s, Least(at), AmountEnd(s, starts(Least(at))) - 1)

\* Lines 617-630 with the product left as it was when no price is found.
EstimatedProductSentinelKept(product, reply) ==
    LET price_match_0 == IF reply.kind = "text" THEN SearchPrice(reply.text) ELSE <<>>
        estimated_price == IF Head(price_match_0) = "$" THEN price_match_0
                           ELSE <<"$">> \o price_match_0
    IN  IF price_match_0 # <<>>
        THEN Update(product, [price |-> estimated_price, is_estimated_price |-> TRUE])
        ELSE product

\* Lines 617-630 with is_estimated_price written on the failure paths too.
EstimatedProductAlwaysFlagged(product, reply) ==
    LET price_match_0 == IF reply.kind = "text" THEN SearchPrice(reply.text) ELSE <<>>
        estimated_price == IF Head(price_match_0) = "$" THEN price_match_0
                           ELSE <<"$">> \o price_match_0
    IN  IF price_match_0 # <<>>
        THEN Update(product, [price |-> estimated_price, is_estimated_price |-> TRUE])
        ELSE Update(product, [price |-> PRICE_NOT_AVAILABLE, is_estimated_price |-> FALSE])

\* Lines 617-630 with the score of an item whose estimation failed reset.
EstimatedProductUnscoredOnFailure(product, reply) ==
    LET price_match_0 == IF reply.kind = "text" THEN SearchPrice(reply.text) ELSE <<>>
        estimated_price == IF Head(price_match_0) = "$" THEN price_match_0
                           ELSE <<"$">> \o price_match_0
    IN  IF price_match_0 # <<>>
        THEN Update(product, [price |-> estimated_price, is_estimated_price |-> TRUE])
        ELSE Update(product, [price |-> PRICE_NOT_AVAILABLE, relevance_score |-> 0])

\* Lines 617-630 for one product whose price is "Price not specified".
EstimatedProduct(product, reply) ==
    LET price_match_0 == IF reply.kind = "text" THEN SearchPrice(reply.text) ELSE <<>>
        estimated_price == IF Head(price_match_0) = "$" THEN price_match_0
                           ELSE <<"$">> \o price_match_0
    IN  IF price_match_0 # <<>>
        THEN Update(product, [price |-> estimated_price, is_estimated_price |-> TRUE])
        ELSE Update(product, [price |-> PRICE_NOT_AVAILABLE])

\* The length of the slice of line 587.
TopN == 5

\* The slice of line 587 left out.
TopProductsUncut(items) ==
    items

\* products_with_prices[:5]
TopProducts(items) ==
    SubSeq(items, 1, Min(TopN, Len(items)))

-----------------------------------------------------------------------------
(* SearchQueryGeneratorAgent.generate_queries. *)

\* The fallback query of lines 76 and 80.
FallbackQuery(product_type) ==
    product_type \o <<" ","s","i","t","e",":","e","b","a","y",".","c","o","m",".","a","u"," ","O","R"," ","s","i","t","e",":","a","m","a","z","o","n",".","c","o","m",".","a","u"," ","O","R"," ","s","i","t","e",":","g","u","m","t","r","e","e",".","c","o","m",".","a","u">>

\* The except clause of lines 78-80.  base_queries is bound nowhere in the
\* function: evaluating it raises NameError, which leaves generate_queries.
ExceptClause(product_type) ==
    [raised |-> "NameError", value |-> <<>>]

\* Lines 71-77 on the parsed response: llm_queries is returned whether or not it
\* is empty (all_queries is assigned and not used).
ReturnQueries(product_type, llm_queries) ==
    [raised |-> "", value |-> llm_queries]

\* generate_queries for one outcome of generate_completion.  A response text is
\* held as what json.loads makes of it: "invalid" (JSONDecodeError), "array"
\* (a value without .get: AttributeError) or "object" with its members.
generate_queries(info, reply) ==
    LET product_type == Lower(Get(info, "product_type", <<>>))
    IN  IF reply.kind = "raise" \/ reply.json.type # "object"
        THEN ExceptClause(product_type)
        ELSE ReturnQueries(product_type, Get(reply.json.members, "queries", <<>>))

-----------------------------------------------------------------------------
(* The environment: the requirement, and what the two capabilities answer. *)

\* The hits the search capability can return: title | url | description.
Catalogue ==
    << \* Dell XPS 13 9310 Laptop | https://a.au/dell-xps | Price: $1,299.00 Brand: Dell ships in 2-3 days
    [title |-> <<"D","e","l","l"," ","X","P","S"," ","1","3"," ","9","3","1","0"," ","L","a","p","t","o","p">>,
     url |-> <<"h","t","t","p","s",":","/","/","a",".","a","u","/","d","e","l","l","-","x","p","s">>,
     description |-> <<"P","r","i","c","e",":"," ","$","1",",","2","9","9",".","0","0"," ","B","r","a","n","d",":"," ","D","e","l","l"," ","s","h","i","p","s"," ","i","n"," ","2","-","3"," ","d","a","y","s">>,
     source |-> <<"a",".","a","u">>],
   \* Laptops on sale | https://a.au/list | All laptops in Sydney
    [title |-> <<"L","a","p","t","o","p","s"," ","o","n"," ","s","a","l","e">>,
     url |-> <<"h","t","t","p","s",":","/","/","a",".","a","u","/","l","i","s","t">>,
     description |-> <<"A","l","l"," ","l","a","p","t","o","p","s"," ","i","n"," ","S","y","d","n","e","y">>,
     source |-> <<"a",".","a","u">>],
   \* HP Pavilion 15 Laptop SSD | https://b.au/p-77 | From $999 free shipping Sydney
    [title |-> <<"H","P"," ","P","a","v","i","l","i","o","n"," ","1","5"," ","L","a","p","t","o","p"," ","S","S","D">>,
     url |-> <<"h","t","t","p","s",":","/","/","b",".","a","u","/","p","-","7","7">>,
     description |-> <<"F","r","o","m"," ","$","9","9","9"," ","f","r","e","e"," ","s","h","i","p","p","i","n","g"," ","S","y","d","n","e","y">>,
     source |-> <<"b",".","a","u">>],
   \* Acer Swift model SF314 | https://c.au/sf314 | acer laptop AUD 1,499
    [title |-> <<"A","c","e","r"," ","S","w","i","f","t"," ","m","o","d","e","l"," ","S","F","3","1","4">>,
     url |-> <<"h","t","t","p","s",":","/","/","c",".","a","u","/","s","f","3","1","4">>,
     description |-> <<"a","c","e","r"," ","l","a","p","t","o","p"," ","A","U","D"," ","1",",","4","9","9">>,
     source |-> <<"c",".","a","u">>],
   \* (no title) | https://d.au/x | AUD 49.50
    [title |-> <<>>,
     url |-> <<"h","t","t","p","s",":","/","/","d",".","a","u","/","x">>,
     description |-> <<"A","U","D"," ","4","9",".","5","0">>,
     source |-> <<"d",".","a","u">>] >>

Requirements ==
    { \* Laptop, budget $1500
      [product_type |-> <<"L","a","p","t","o","p">>, budget |-> <<"$","1","5","0","0">>, location |-> <<>>,
       special_requirements |-> <<>>],
      \* laptop by Dell with SSD, in Sydney, no budget
      [product_type |-> <<"l","a","p","t","o","p">>, budget |-> <<>>, location |-> <<"S","y","d","n","e","y">>,
       special_requirements |-> << <<"S","S","D">> >>, brand |-> <<"D","e","l","l">>] }

Raise == [kind |-> "raise", text |-> <<>>]

Text(s) == [kind |-> "text", text |-> s]

Query1 == <<"q","1">>

Query2 == <<"q","2">>

\* Outcomes of the query-generation call: the call raises, or answers with text
\* that is no JSON, a JSON array, or a JSON object with or without "queries".
QueryReplies ==
    { [kind |-> "raise"],
      [kind |-> "text", json |-> [type |-> "invalid"]],
      [kind |-> "text", json |-> [type |-> "array"]],
      [kind |-> "text", json |-> [type |-> "object", members |-> <<>>]],
      [kind |-> "text", json |-> [type |-> "object", members |-> [queries |-> <<>>]]],
      [kind |-> "text", json |-> [type |-> "object", members |-> [queries |-> <<Query1>>]]],
      [kind |-> "text", json |-> [type |-> "object", members |-> [queries |-> <<Query1, Query2>>]]] }

\* Outcomes of a scoring call: "0.9", " 0.5\n", "0.005", "1.5", "high", or a raise.
ScoreReplies ==
    { Text(<<"0",".","9">>), Text(<<" ","0",".","5","\n">>), Text(<<"0",".","0","0","5">>), Text(<<"1",".","5">>), Text(<<"h","i","g","h">>), Raise }

\* Outcomes of a price-estimation call: "$1,250.00", "about 1200 AUD", "unknown",
\* or a raise.
PriceReplies ==
    { Text(<<"$","1",",","2","5","0",".","0","0">>), Text(<<"a","b","o","u","t"," ","1","2","0","0"," ","A","U","D">>), Text(<<"u","n","k","n","o","w","n">>), Raise }

\* The count=5 of line 90.
SearchCount == 5

\* The search capability keeps one ranking of the catalogue per query (the
\* catalogue read cyclically from a place set by the query) and answers with
\* its first n entries.
SearchIndex(query, n) ==
    LET first == IF query = Query1 THEN 1 ELSE 2
    IN  [i \in 1..n |-> Catalogue[((first + i - 2) % Len(Catalogue)) + 1]]

-----------------------------------------------------------------------------
(* BraveSearchProvider (agents/providers/brave_search_provider.py).  Time is *)
(* counted in ticks of half a second; time.sleep(d) returns d ticks after it *)
(* was called, or later.                                                     *)

\* self.rate_limit_delay = 1 second
rate_limit_delay == 2

\* self.max_retries
max_retries == 3

\* How far the clock runs ahead while no call is asleep.
MaxClock == 3

\* The index of the first character of s, from i on, that lies in set;
\* Len(s) + 1 when there is none.
RECURSIVE FirstOf(_, _, _)
FirstOf(s, i, set) ==
    IF i > Len(s) \/ s[i] \in set THEN i ELSE FirstOf(s, i + 1, set)

\* urlparse(url).netloc of a url '<scheme>://<netloc>...' or '//<netloc>...'.
NetLocFrom(url, i) ==
    IF SubSeq(url, i, Min(i + 1, Len(url))) = <<"/", "/">>
    THEN SubSeq(url, i + 2, FirstOf(url, i + 2, {"/", "?", "#"}) - 1)
    ELSE <<>>

\* _extract_domain
extract_domain(url) ==
    IF FirstOf(url, 1, {":"}) < FirstOf(url, 1, {"/", "?", "#"})
    THEN NetLocFrom(url, FirstOf(url, 1, {":"}) + 1)
    ELSE NetLocFrom(url, 1)

\* The match of r'\$[\d,]+(?:\.\d{2})?' that begins at i, of n >= 1 digits and
\* commas.
ProviderPriceAt(text, i, n) ==
    IF /\ i + n + 3 <= Len(text)
       /\ text[i + n + 1] = "."
       /\ text[i + n + 2] \in Digits
       /\ text[i + n + 3] \in Digits
    THEN SubSeq(text, i, i + n + 3)
    ELSE SubSeq(text, i, i + n)

\* BraveSearchProvider._extract_price
provider_extract_price(text) ==
    LET at == {i \in 1..Len(text) :
                  text[i] = "$" /\ RunLength(text, i + 1, Digits \cup {","}) >= 1}
    IN  IF at = {} THEN PRICE_NOT_SPECIFIED
        ELSE ProviderPriceAt(text, Least(at), RunLength(text, Least(at) + 1, Digits \cup {","}))

\* Lines 99-118 for one result: skipped without a title or a url, and when the
\* search of the price raises (a description that is None).
processed_result(raw) ==
    IF \/ Get(raw, "title", None) \in {<<>>, None}
       \/ Get(raw, "url", None) \in {<<>>, None}
       \/ Get(raw, "description", <<>>) = None
    THEN <<>>
    ELSE << [title |-> raw.title,
             url |-> raw.url,
             description |-> Get(raw, "description", <<>>),
             source |-> extract_domain(raw.url),
             price |-> provider_extract_price(Get(raw, "description", <<>>))] >>

\* _process_results
RECURSIVE process_results(_)
process_results(results) ==
    IF results = <<>> THEN <<>>
    ELSE processed_result(Head(results)) \o process_results(Tail(results))

\* data["web"]["results"] of a 200 response: none, one result, and a result
\* without a title and one without a description value before a good one.
WebResults ==
    { <<>>,
      << Catalogue[1] >>,
      << Catalogue[5], [title |-> <<"A","c","e","r">>, url |-> <<"h","t","t","p","s",":","/","/","b",".","a","u","/","p","-","7","7">>, description |-> None], Catalogue[3] >> }

\* What requests.get and response.json() do: the transport raises; a status
\* other than 200; a 200 whose body is no JSON; a 200 with a JSON body.
Responses ==
    { [kind |-> "exception"], [kind |-> "status", status |-> 429],
      [kind |-> "status", status |-> 500], [kind |-> "status", status |-> 200, json |-> FALSE] }
    \cup { [kind |-> "status", status |-> 200, json |-> TRUE, web_results |-> w] : w \in WebResults }

\* What a call keeps of a response: "exception", "200", "200 no json", "429", ...
Outcome(response) ==
    IF response.kind = "exception" THEN "exception"
    ELSE IF response.status = 200 /\ ~response.json THEN "200 no json"
    ELSE ToString(response.status)

\* The record of the requests after one more is sent at `time`: two requests
\* sent rate_limit_delay or more apart count as rate_limit_delay apart.
Sent(sent, time) ==
    [count |-> sent.count + 1,
     latest |-> time,
     closest |-> IF sent.count = 0 THEN sent.closest
                 ELSE Min(sent.closest, time - sent.latest)]

\* A backoff that does not grow with the attempt.
Pow2Flat(n) == 1

\* 2 ** attempt
RECURSIVE Pow2(_)
Pow2(n) == IF n = 0 THEN 1 ELSE 2 * Pow2(n - 1)

\* A call of search() that has not begun.
NewCall ==
    [pc |-> "called", attempt |-> 0, wake |-> 0, waits |-> <<>>, responses |-> <<>>,
     outcome |-> "running", exception |-> "", result |-> <<>>]

\* return <list>
Returned(call, list) ==
    [call EXCEPT !.pc = "done", !.outcome = "returned", !.result = list]

\* time.sleep(delay); continue
Sleeping(call, time, delay) ==
    [call EXCEPT !.pc = "sleep", !.wake = time + delay, !.attempt = @ + 1,
                 !.waits = Append(@, delay)]

\* Lines 86-91: the except clause.
AfterException(call, time) ==
    IF call.attempt < max_retries - 1
    THEN Sleeping(call, time, rate_limit_delay)
    ELSE Returned(call, <<>>)

\* Lines 64-91 for one response.
AfterResponse(call, response, time) ==
    IF response.kind = "exception" THEN AfterException(call, time)
    ELSE IF response.status = 200
    THEN (IF response.json THEN Returned(call, process_results(response.web_results))
          ELSE AfterException(call, time))
    ELSE IF response.status = 429
    THEN (IF call.attempt < max_retries - 1
          THEN Sleeping(call, time, Pow2(call.attempt) * rate_limit_delay)
          ELSE Returned(call, <<>>))
    ELSE Returned(call, <<>>)

\* The provider as its constructor leaves it, the clock reading more than
\* rate_limit_delay.
Constructed ==
    /\ now = rate_limit_delay
    /\ last_request_time = 0
    /\ requests = [count |-> 0, latest |-> 0, closest |-> rate_limit_delay]

\* The provider of a run that makes no call of it.
ProviderIdle ==
    /\ api_key = TRUE
    /\ Constructed
    /\ calls = <<>>

\* The pipeline of a run that only calls the provider.
PipelineIdle ==
    /\ entry = "brave_search"
    /\ pc = "done"
    /\ requirements = <<>>
    /\ use_llm = FALSE
    /\ products = <<>>
    /\ queries = <<>> /\ qi = 0 /\ search_results = <<>>
    /\ pi = 0 /\ scored_products = <<>> /\ ranked_products = <<>>
    /\ llm_raised = FALSE /\ query_reply = [kind |-> "none"] /\ last_call = [to |-> "none"]
    /\ outcome = "running" /\ exception = "" /\ result = <<>>

\* Lines 26-33: the key is tested, the clock and last_request_time are read,
\* and the call goes to sleep for the rest of rate_limit_delay or on to its
\* first request.
BraveEnter ==
    /\ \E t \in DOMAIN calls :
          /\ calls[t].pc = "called"
          /\ calls' =
                [calls EXCEPT ![t] =
                    IF ~api_key
                    THEN [@ EXCEPT !.pc = "done", !.outcome = "raised",
                                   !.exception = "ValueError"]
                    ELSE IF now - last_request_time < rate_limit_delay
                    THEN [@ EXCEPT !.pc = "sleep",
                                   !.wake = now + (rate_limit_delay - (now - last_request_time))]
                    ELSE [@ EXCEPT !.pc = "request"]]
    /\ UNCHANGED <<api_key, now, last_request_time, requests>>
    /\ UNCHANGED pipeline

\* time.sleep returns.
BraveWake ==
    /\ \E t \in DOMAIN calls :
          /\ calls[t].pc = "sleep"
          /\ now >= calls[t].wake
          /\ calls' = [calls EXCEPT ![t].pc = "request", ![t].wake = 0]
    /\ UNCHANGED <<api_key, now, last_request_time, requests>>
    /\ UNCHANGED pipeline

\* Line 57: requests.get sends the request.
BraveRequest ==
    /\ \E t \in DOMAIN calls :
          /\ calls[t].pc = "request"
          /\ requests' = Sent(requests, now)
          /\ calls' = [calls EXCEPT ![t].pc = "response"]
    /\ UNCHANGED <<api_key, now, last_request_time>>
    /\ UNCHANGED pipeline

\* Lines 57-91: requests.get returns or raises; line 62 is reached when it
\* returns.
BraveRespond ==
    /\ \E t \in DOMAIN calls :
          /\ calls[t].pc = "response"
          /\ \E response \in Responses :
                /\ calls' = [calls EXCEPT ![t] =
                                AfterResponse([@ EXCEPT !.responses = Append(@, Outcome(response))],
                                              response, now)]
                /\ last_request_time' =
                      IF response.kind = "exception" THEN last_request_time ELSE now
    /\ UNCHANGED <<api_key, now, requests>>
    /\ UNCHANGED pipeline

\* The clock advances while a call is under execution.
BraveTick ==
    /\ \E t \in DOMAIN calls : calls[t].pc # "done"
    /\ \/ now < MaxClock
       \/ \E t \in DOMAIN calls : calls[t].pc = "sleep" /\ calls[t].wake > now
    /\ now' = now + 1
    /\ UNCHANGED <<api_key, last_request_time, calls, requests>>
    /\ UNCHANGED pipeline

NextBrave ==
    \/ BraveEnter
    \/ BraveWake
    \/ BraveRequest
    \/ BraveRespond
    \/ BraveTick

\* One call of search() on a new provider.
InitBraveOne ==
    /\ PipelineIdle
    /\ api_key \in BOOLEAN
    /\ Constructed
    /\ calls = [t \in {1} |-> NewCall]

\* Every step that is possible is taken in the end: the call is scheduled and
\* the clock advances.
SpecBraveOne ==
    /\ InitBraveOne
    /\ [][NextBrave]_vars
    /\ WF_vars(BraveEnter) /\ WF_vars(BraveWake) /\ WF_vars(BraveRequest)
    /\ WF_vars(BraveRespond) /\ WF_vars(BraveTick)

\* Two calls of search() on one provider, from two threads.
InitBraveTwo ==
    /\ PipelineIdle
    /\ api_key = TRUE
    /\ Constructed
    /\ calls = [t \in {1, 2} |-> NewCall]

SpecBraveTwo == InitBraveTwo /\ [][NextBrave]_vars

-----------------------------------------------------------------------------
(* The runs. *)

Idle ==
    /\ queries = <<>> /\ qi = 0 /\ search_results = <<>>
    /\ pi = 0 /\ scored_products = <<>> /\ ranked_products = <<>>
    /\ llm_raised = FALSE /\ query_reply = [kind |-> "none"] /\ last_call = [to |-> "none"]
    /\ outcome = "running" /\ exception = "" /\ result = <<>>
    /\ ProviderIdle

\* MultiAgentProductSearch.search(extracted_info) is called.
Init ==
    /\ entry = "search"
    /\ pc = "generate_queries"
    /\ requirements \in Requirements
    /\ use_llm = TRUE
    /\ products = <<>>
    /\ Idle

\* Sequences over S of length at most n.
SeqsUpTo(S, n) == UNION {[1..k -> S] : k \in 0..n}

\* ProductFilteringAndRankingAgent.filter_and_rank(products, requirements, use_llm)
\* is called on records the extractor produced.
InitRank ==
    /\ entry = "filter_and_rank"
    /\ pc = "filter_and_rank"
    /\ requirements \in Requirements
    /\ use_llm \in BOOLEAN
    /\ products \in {extract_info(hits) :
                        hits \in SeqsUpTo({Catalogue[n] : n \in 1..Len(Catalogue)}, MaxProducts)}
    /\ Idle

\* An exception leaves the method under execution.
Raised(name) ==
    /\ outcome' = "raised"
    /\ exception' = name
    /\ pc' = "done"
    /\ result' = <<>>

\* Line 571: generate_queries, with its one text-generation call.
GenerateQueries ==
    /\ pc = "generate_queries"
    /\ \E reply \in QueryReplies :
          LET r == generate_queries(requirements, reply)
          IN  /\ query_reply' = reply
              /\ IF r.raised # ""
                 THEN /\ Raised(r.raised)
                      /\ UNCHANGED queries
                 ELSE /\ queries' = r.value
                      /\ pc' = "web_search"
                      /\ UNCHANGED <<outcome, exception, result>>
    /\ UNCHANGED <<entry, requirements, use_llm, qi, search_results, products, pi,
                   scored_products, ranked_products, llm_raised, last_call>>
    /\ UNCHANGED provider

\* A call to a capability: its purpose, what it was about (a query, or the
\* position of a product in the list) and its outcome.
Call(to, about, reply) ==
    [to |-> to, about |-> about, reply |-> reply]

\* Line 91 with the hits already collected left out of the extension.
ExtendedWithNewOnly(all_results, results) ==
    all_results \o SelectSeq(results, LAMBDA hit : \A i \in 1..Len(all_results) : all_results[i] # hit)

\* all_results.extend(results) of line 91.
ExtendedWith(all_results, results) ==
    all_results \o results

\* Lines 89-91: one call of the search capability, which answers or raises; no
\* handler stands between it and the caller of search().
WebSearchCall ==
    /\ pc = "web_search"
    /\ qi < Len(queries)
    /\ \/ /\ Raised("SearchError")
          /\ last_call' = Call("search", queries[qi + 1], [kind |-> "raise"])
          /\ UNCHANGED <<qi, search_results>>
       \/ \E n \in 0..Min(SearchCount, MaxHits - Len(search_results)) :
             /\ search_results' = ExtendedWith(search_results, SearchIndex(queries[qi + 1], n))
             /\ last_call' = Call("search", queries[qi + 1],
                                  [kind |-> "hits", hits |-> SearchIndex(queries[qi + 1], n)])
             /\ qi' = qi + 1
             /\ UNCHANGED <<pc, outcome, exception, result>>
    /\ UNCHANGED <<entry, requirements, use_llm, queries, products, pi, scored_products,
                   ranked_products, llm_raised, query_reply>>
    /\ UNCHANGED provider

\* Lines 92 and 578: the aggregator returns and the hits are extracted.
ExtractInfo ==
    /\ pc = "web_search"
    /\ qi = Len(queries)
    /\ products' = extract_info(search_results)
    /\ pc' = "filter_and_rank"
    /\ UNCHANGED last_call
    /\ UNCHANGED <<entry, requirements, use_llm, queries, qi, search_results, pi,
                   scored_products, ranked_products, llm_raised, query_reply, outcome,
                   exception, result>>
    /\ UNCHANGED provider

\* search() returning the top of the ranking at once, before the estimation pass.
ReturnRankedAtOnce(ranked, items) ==
    /\ ranked_products' = ranked
    /\ pi' = 0
    /\ pc' = "done"
    /\ products' = items
    /\ outcome' = "returned"
    /\ result' = IF entry = "search" THEN TopProducts(ranked) ELSE ranked
    /\ UNCHANGED <<exception, last_call>>

\* filter_and_rank returns `ranked`, leaving the caller's list as `items`: to the
\* caller, or to search(), which goes on to the estimation pass (line 584) and
\* does not read its local `products` again.
ReturnRanked(ranked, items) ==
    /\ ranked_products' = ranked
    /\ pi' = 0
    /\ IF entry = "search"
       THEN /\ pc' = "estimate"
            /\ products' = <<>>
            /\ UNCHANGED <<outcome, result>>
       ELSE /\ pc' = "done"
            /\ products' = items
            /\ outcome' = "returned"
            /\ result' = ranked
    /\ UNCHANGED <<exception, last_call>>

\* Lines 272-280: nothing to rank, the rule-based strategy (which updates every
\* product it evaluates in place), or the start of the assisted strategy.
FilterAndRank ==
    /\ pc = "filter_and_rank"
    /\ IF products = <<>>
       THEN ReturnRanked(<<>>, products)
       ELSE IF use_llm
       THEN /\ pc' = "score"
            /\ pi' = 0
            /\ UNCHANGED <<products, ranked_products, last_call, outcome, exception,
                           result>>
       ELSE ReturnRanked(filter_and_rank_with_rules(products, requirements),
                         EvaluatedAll(products, requirements))
    /\ UNCHANGED <<entry, requirements, use_llm, queries, qi, search_results,
                   scored_products, llm_raised, query_reply>>
    /\ UNCHANGED provider

\* Lines 320-350: one scoring call; the product is scored in place and appended,
\* or skipped.
ScoreProduct ==
    /\ pc = "score"
    /\ pi < Len(products)
    /\ \E reply \in ScoreReplies :
          LET scored == ScoredProduct(products[pi + 1], reply)
          IN  /\ scored_products' = scored_products \o scored
              /\ products' = IF scored = <<>> THEN products
                             ELSE [products EXCEPT ![pi + 1] = scored[1]]
              /\ llm_raised' = (llm_raised \/ reply.kind = "raise")
              /\ last_call' = Call("score", pi + 1, reply)
    /\ pi' = pi + 1
    /\ UNCHANGED <<entry, pc, requirements, use_llm, queries, qi, search_results,
                   ranked_products, query_reply, outcome, exception, result>>
    /\ UNCHANGED provider

\* Lines 352-358: the loop is over; filter, sort and return.
ScoreReturn ==
    /\ pc = "score"
    /\ pi = Len(products)
    /\ ReturnRanked(RankScored(scored_products), products)
    /\ scored_products' = <<>>
    /\ UNCHANGED <<entry, requirements, use_llm, queries, qi, search_results,
                   llm_raised, query_reply>>
    /\ UNCHANGED provider

\* Lines 592-630: the next product has no price; one estimation call.
EstimatePrice ==
    /\ pc = "estimate"
    /\ pi < Len(ranked_products)
    /\ ranked_products[pi + 1].price = PRICE_NOT_SPECIFIED
    /\ \E reply \in PriceReplies :
          /\ ranked_products' =
                [ranked_products EXCEPT ![pi + 1] = EstimatedProduct(@, reply)]
          /\ last_call' = Call("estimate", pi + 1, reply)
    /\ pi' = pi + 1
    /\ UNCHANGED <<entry, pc, requirements, use_llm, queries, qi, search_results,
                   products, scored_products, llm_raised, query_reply, outcome,
                   exception, result>>
    /\ UNCHANGED provider

\* Line 592, condition false, with the flag written on the priced item.
KeepPriceFlagged ==
    /\ pc = "estimate"
    /\ pi < Len(ranked_products)
    /\ ranked_products[pi + 1].price # PRICE_NOT_SPECIFIED
    /\ ranked_products' =
          [ranked_products EXCEPT ![pi + 1] = Update(@, [is_estimated_price |-> FALSE])]
    /\ pi' = pi + 1
    /\ UNCHANGED <<entry, pc, requirements, use_llm, queries, qi, search_results,
                   products, scored_products, llm_raised, query_reply,
                   last_call, outcome, exception, result>>
    /\ UNCHANGED provider

\* Line 592, condition false: the next product has a price and is left alone.
KeepPrice ==
    /\ pc = "estimate"
    /\ pi < Len(ranked_products)
    /\ ranked_products[pi + 1].price # PRICE_NOT_SPECIFIED
    /\ pi' = pi + 1
    /\ UNCHANGED <<entry, pc, requirements, use_llm, queries, qi, search_results,
                   products, scored_products, ranked_products, llm_raised, query_reply,
                   last_call, outcome, exception, result>>
    /\ UNCHANGED provider

\* Lines 632 and 587: the estimation pass returns and search() returns the top.
SearchReturn ==
    /\ pc = "estimate"
    /\ pi = Len(ranked_products)
    /\ result' = TopProducts(ranked_products)
    /\ outcome' = "returned"
    /\ pc' = "done"
    /\ UNCHANGED <<entry, requirements, use_llm, queries, qi, search_results, products,
                   pi, scored_products, ranked_products, llm_raised, query_reply, last_call,
                   exception>>
    /\ UNCHANGED provider

Next ==
    \/ GenerateQueries
    \/ WebSearchCall
    \/ ExtractInfo
    \/ FilterAndRank
    \/ ScoreProduct
    \/ ScoreReturn
    \/ EstimatePrice
    \/ KeepPrice
    \/ SearchReturn

\* One run of MultiAgentProductSearch.search.
Spec == Init /\ [][Next]_vars

NextRank ==
    \/ FilterAndRank
    \/ ScoreProduct
    \/ ScoreReturn

\* One run of ProductFilteringAndRankingAgent.filter_and_rank.
SpecRank == InitRank /\ [][NextRank]_vars

-----------------------------------------------------------------------------
(* The rule-based strategy on one product: filter_and_rank(products,         *)
(* requirements) with use_llm = False and a list of one extracted record.    *)

\* Names of the sample products:
\*   'Dell XPS 13 9310 Laptop'
\*   'Lenovo ABCD'
\*   'Laptops on sale'
\*   'HP Laptop'
\*   'Acer model X'
SampleNames ==
    { <<"D","e","l","l"," ","X","P","S"," ","1","3"," ","9","3","1","0"," ","L","a","p","t","o","p">>,
      <<"L","e","n","o","v","o"," ","A","B","C","D">>,
      <<"L","a","p","t","o","p","s"," ","o","n"," ","s","a","l","e">>,
      <<"H","P"," ","L","a","p","t","o","p">>,
      <<"A","c","e","r"," ","m","o","d","e","l"," ","X">> }

\* Urls of the sample products:
\*   'https://a.au/x1'
\*   'https://a.au/laptops-category'
\*   'https://b.au/p-77'
SampleUrls ==
    { <<"h","t","t","p","s",":","/","/","a",".","a","u","/","x","1">>,
      <<"h","t","t","p","s",":","/","/","a",".","a","u","/","l","a","p","t","o","p","s","-","c","a","t","e","g","o","r","y">>,
      <<"h","t","t","p","s",":","/","/","b",".","a","u","/","p","-","7","7">> }

\* Descriptions of the sample products:
\*   'a laptop'
\*   'browse laptop deals'
SampleDescriptions ==
    { <<"a"," ","l","a","p","t","o","p">>,
      <<"b","r","o","w","s","e"," ","l","a","p","t","o","p"," ","d","e","a","l","s">> }

\* Prices of the sample products, with the amount in cents that the text
\* stands for (-1: no amount):
\*   '$119.99'
\*   '$120'
\*   '$3.60'
\*   '$80'
\*   'Price not specified'
\*   'Price not available'
SamplePrices ==
    { [text |-> <<"$","1","1","9",".","9","9">>, cents |-> 11999],
      [text |-> <<"$","1","2","0">>, cents |-> 12000],
      [text |-> <<"$","3",".","6","0">>, cents |-> 360],
      [text |-> <<"$","8","0">>, cents |-> 8000],
      [text |-> <<"P","r","i","c","e"," ","n","o","t"," ","s","p","e","c","i","f","i","e","d">>, cents |-> -1],
      [text |-> <<"P","r","i","c","e"," ","n","o","t"," ","a","v","a","i","l","a","b","l","e">>, cents |-> -1] }

\* Budgets of the sample requirements, with the amount in cents (-1: no amount):
\*   '$100'
\*   '$90'
\*   '$3'
\*   "" (empty)
\*   '$0'
\*   'abc'
SampleBudgets ==
    { [text |-> <<"$","1","0","0">>, cents |-> 10000],
      [text |-> <<"$","9","0">>, cents |-> 9000],
      [text |-> <<"$","3">>, cents |-> 300],
      [text |-> <<>>, cents |-> -1],
      [text |-> <<"$","0">>, cents |-> 0],
      [text |-> <<"a","b","c">>, cents |-> -1] }

\* The records the extractor makes of the sample texts.
SampleProducts ==
    { [name |-> n, price |-> p.text, url |-> u, source |-> <<>>, description |-> d,
       key_specs |-> <<>>, delivery_time |-> DELIVERY_NOT_SPECIFIED] :
         n \in SampleNames, p \in SamplePrices, u \in SampleUrls, d \in SampleDescriptions }

\* Product types of the sample requirements: 'laptop', 'Laptop', 'phone'.
SampleTypes ==
    { <<"l","a","p","t","o","p">>, <<"L","a","p","t","o","p">>, <<"p","h","o","n","e">> }

\* The brand of the sample requirements: no 'brand' key, or the brand '',
\* 'dell' or 'Asus'.
SampleBrands ==
    { <<>>, [brand |-> <<>>], [brand |-> <<"d","e","l","l">>], [brand |-> <<"A","s","u","s">>] }

SampleRequirements ==
    { Update([product_type |-> type, budget |-> b.text, location |-> <<>>,
              special_requirements |-> <<>>], brand) :
         type \in SampleTypes, b \in SampleBudgets, brand \in SampleBrands }

\* filter_and_rank([product], requirements, use_llm=False) is called.
InitRules ==
    /\ entry = "filter_and_rank"
    /\ pc = "filter_and_rank"
    /\ requirements \in SampleRequirements
    /\ use_llm = FALSE
    /\ products \in {<<product>> : product \in SampleProducts}
    /\ Idle

\* One run of the rule-based strategy on one product.
SpecRules == InitRules /\ [][FilterAndRank]_vars

-----------------------------------------------------------------------------
(* InformationExtractionAgent.extract_info on a list of hits. *)

\* The longest list of hits extract_info is given.
MaxResults == 3

\* Hits as a search capability may hand them over: complete ones, one with an
\* empty title, one with an empty url, one without a url, one whose url is
\* null, and two with a null description or title.
SampleHits ==
    { [title |-> <<"H","P"," ","L","a","p","t","o","p">>, url |-> <<"h","t","t","p","s",":","/","/","a",".","a","u","/","x","1">>, description |-> <<"F","r","o","m"," ","$","9","9","9">>, source |-> <<"a",".","a","u">>],
      [title |-> <<"A","c","e","r">>, url |-> <<"h","t","t","p","s",":","/","/","b",".","a","u","/","p","-","7","7">>, description |-> <<"a"," ","l","a","p","t","o","p">>, source |-> <<"a",".","a","u">>],
      [title |-> <<>>, url |-> <<"h","t","t","p","s",":","/","/","a",".","a","u","/","x","1">>, description |-> <<"F","r","o","m"," ","$","9","9","9">>, source |-> <<"a",".","a","u">>],
      [title |-> <<"H","P"," ","L","a","p","t","o","p">>, url |-> <<>>, description |-> <<"F","r","o","m"," ","$","9","9","9">>, source |-> <<"a",".","a","u">>],
      [title |-> <<"A","c","e","r">>, description |-> <<"a"," ","l","a","p","t","o","p">>],
      [title |-> <<"A","c","e","r">>, url |-> None, description |-> <<"a"," ","l","a","p","t","o","p">>, source |-> <<"a",".","a","u">>],
      [title |-> <<"H","P"," ","L","a","p","t","o","p">>, url |-> <<"h","t","t","p","s",":","/","/","a",".","a","u","/","x","1">>, description |-> None, source |-> <<"a",".","a","u">>],
      [title |-> None, url |-> <<"h","t","t","p","s",":","/","/","b",".","a","u","/","p","-","7","7">>, description |-> <<"a"," ","l","a","p","t","o","p">>, source |-> <<"a",".","a","u">>] }

\* extract_info(search_results) is called.
InitExtract ==
    /\ entry = "extract_info"
    /\ pc = "web_search"
    /\ requirements \in SampleRequirements
    /\ use_llm = FALSE
    /\ products = <<>>
    /\ queries = <<>> /\ qi = 0
    /\ search_results \in SeqsUpTo(SampleHits, MaxResults)
    /\ pi = 0 /\ scored_products = <<>> /\ ranked_products = <<>>
    /\ llm_raised = FALSE /\ query_reply = [kind |-> "none"] /\ last_call = [to |-> "none"]
    /\ outcome = "running" /\ exception = "" /\ result = <<>>
    /\ ProviderIdle

\* One run of extract_info.
SpecExtract == InitExtract /\ [][ExtractInfo]_vars

\* Longest list of hits given to extract_info when the strategy is chosen freely.
MaxExtracted == 2

\* What the text-generation call answers to an extraction prompt: an object
\* with the seven fields, an object with a name and a url only, the empty
\* object, an object whose name is null, text that is no JSON, an empty array,
\* a JSON string; or the call raises.
ExtractReplies ==
    { Text(<<"{","\"","n","a","m","e","\"",":"," ","\"","H","P","\"",","," ","\"","p","r","i","c","e","\"",":"," ","\"","$","9","\"",","," ","\"","u","r","l","\"",":"," ","\"","u","1","\"",","," ","\"","s","o","u","r","c","e","\"",":"," ","\"","s","\"",","," ","\"","d","e","s","c","r","i","p","t","i","o","n","\"",":"," ","\"","d","\"",","," ","\"","k","e","y","_","s","p","e","c","s","\"",":"," ","{","\"","R","A","M","\"",":"," ","\"","8","G","B","\"","}",","," ","\"","d","e","l","i","v","e","r","y","_","t","i","m","e","\"",":"," ","\"","2"," ","d","a","y","s","\"","}">>),
      Text(<<"{","\"","n","a","m","e","\"",":"," ","\"","H","P","\"",","," ","\"","u","r","l","\"",":"," ","\"","u","1","\"","}">>),
      Text(<<"{","}">>),
      Text(<<"{","\"","n","a","m","e","\"",":"," ","n","u","l","l",","," ","\"","u","r","l","\"",":"," ","\"","u","1","\"","}">>),
      Text(<<"n","o","t"," ","j","s","o","n">>),
      Text(<<"[","]">>),
      Text(<<"\"","H","P","\"">>),
      Raise }

\* extract_info(search_results, use_llm) is called.
InitExtractBoth ==
    /\ entry = "extract_info"
    /\ use_llm \in BOOLEAN
    /\ pc = IF use_llm THEN "extract" ELSE "web_search"
    /\ requirements = [product_type |-> <<"l","a","p","t","o","p">>, budget |-> <<>>,
                       location |-> <<>>, special_requirements |-> <<>>]
    /\ products = <<>>
    /\ queries = <<>> /\ qi = 0
    /\ search_results \in SeqsUpTo(SampleHits, MaxExtracted)
    /\ pi = 0 /\ scored_products = <<>> /\ ranked_products = <<>>
    /\ llm_raised = FALSE /\ query_reply = [kind |-> "none"] /\ last_call = [to |-> "none"]
    /\ outcome = "running" /\ exception = "" /\ result = <<>>
    /\ ProviderIdle

\* Lines 102-113 with use_llm: one hit, one text-generation call.
ExtractHit ==
    /\ pc = "extract"
    /\ pi < Len(search_results)
    /\ \E reply \in ExtractReplies :
          /\ products' = products \o Appended(extract_with_llm(search_results[pi + 1], reply))
          /\ last_call' = Call("extract", pi + 1, reply)
    /\ pi' = pi + 1
    /\ UNCHANGED <<entry, pc, requirements, use_llm, queries, qi, search_results,
                   scored_products, ranked_products, llm_raised, query_reply, outcome,
                   exception, result>>
    /\ UNCHANGED provider

\* Line 115: extract_info returns extracted_products.
ExtractReturn ==
    /\ pc = "extract"
    /\ pi = Len(search_results)
    /\ pc' = "filter_and_rank"
    /\ UNCHANGED <<entry, requirements, use_llm, queries, qi, search_results, products,
                   pi, scored_products, ranked_products, llm_raised, query_reply, last_call,
                   outcome, exception, result>>
    /\ UNCHANGED provider

NextExtract ==
    \/ ExtractInfo
    \/ ExtractHit
    \/ ExtractReturn

\* One run of extract_info under either strategy.
SpecExtractBoth == InitExtractBoth /\ [][NextExtract]_vars

-----------------------------------------------------------------------------
(* _extract_price_with_patterns on the description and title of one hit. *)

\* Descriptions of the sample hits, each with the amount every price pattern
\* alone captures in it (<<>>: the pattern does not match):
\*   'Price: $1,299.00', 'From 450 or $20', '$30 now AUD 1,499', 'Cost: 75.50',
\*   'starting at $2500', 'great laptop', 'from 12', 'PRICE:  99 only',
\*   'aud$1,000,000.5', 'Starting at 15.999'
PricedDescriptions ==
    { [text |-> <<"P","r","i","c","e",":"," ","$","1",",","2","9","9",".","0","0">>,
       captured |-> [aud |-> <<>>, dollar |-> <<"1",",","2","9","9",".","0","0">>, price |-> <<"1",",","2","9","9",".","0","0">>, cost |-> <<>>, from |-> <<>>, starting |-> <<>>]],
      [text |-> <<"F","r","o","m"," ","4","5","0"," ","o","r"," ","$","2","0">>,
       captured |-> [aud |-> <<>>, dollar |-> <<"2","0">>, price |-> <<>>, cost |-> <<>>, from |-> <<"4","5","0">>, starting |-> <<>>]],
      [text |-> <<"$","3","0"," ","n","o","w"," ","A","U","D"," ","1",",","4","9","9">>,
       captured |-> [aud |-> <<"1",",","4","9","9">>, dollar |-> <<"3","0">>, price |-> <<>>, cost |-> <<>>, from |-> <<>>, starting |-> <<>>]],
      [text |-> <<"C","o","s","t",":"," ","7","5",".","5","0">>,
       captured |-> [aud |-> <<>>, dollar |-> <<>>, price |-> <<>>, cost |-> <<"7","5",".","5","0">>, from |-> <<>>, starting |-> <<>>]],
      [text |-> <<"s","t","a","r","t","i","n","g"," ","a","t"," ","$","2","5","0","0">>,
       captured |-> [aud |-> <<>>, dollar |-> <<"2","5","0">>, price |-> <<>>, cost |-> <<>>, from |-> <<>>, starting |-> <<"2","5","0">>]],
      [text |-> <<"g","r","e","a","t"," ","l","a","p","t","o","p">>,
       captured |-> [aud |-> <<>>, dollar |-> <<>>, price |-> <<>>, cost |-> <<>>, from |-> <<>>, starting |-> <<>>]],
      [text |-> <<"f","r","o","m"," ","1","2">>,
       captured |-> [aud |-> <<>>, dollar |-> <<>>, price |-> <<>>, cost |-> <<>>, from |-> <<"1","2">>, starting |-> <<>>]],
      [text |-> <<"P","R","I","C","E",":"," "," ","9","9"," ","o","n","l","y">>,
       captured |-> [aud |-> <<>>, dollar |-> <<>>, price |-> <<"9","9">>, cost |-> <<>>, from |-> <<>>, starting |-> <<>>]],
      [text |-> <<"a","u","d","$","1",",","0","0","0",",","0","0","0",".","5">>,
       captured |-> [aud |-> <<"1",",","0","0","0",",","0","0","0">>, dollar |-> <<"1",",","0","0","0",",","0","0","0">>, price |-> <<>>, cost |-> <<>>, from |-> <<>>, starting |-> <<>>]],
      [text |-> <<"S","t","a","r","t","i","n","g"," ","a","t"," ","1","5",".","9","9","9">>,
       captured |-> [aud |-> <<>>, dollar |-> <<>>, price |-> <<>>, cost |-> <<>>, from |-> <<>>, starting |-> <<"1","5",".","9","9">>]] }

\* Titles of the sample hits, in the same way:
\*   'HP Laptop', 'Acer AUD 5', 'Dell $7', 'Asus from 8', 'Lenovo 500', 'Cost: 3'
PricedTitles ==
    { [text |-> <<"H","P"," ","L","a","p","t","o","p">>,
       captured |-> [aud |-> <<>>, dollar |-> <<>>, price |-> <<>>, cost |-> <<>>, from |-> <<>>, starting |-> <<>>]],
      [text |-> <<"A","c","e","r"," ","A","U","D"," ","5">>,
       captured |-> [aud |-> <<"5">>, dollar |-> <<>>, price |-> <<>>, cost |-> <<>>, from |-> <<>>, starting |-> <<>>]],
      [text |-> <<"D","e","l","l"," ","$","7">>,
       captured |-> [aud |-> <<>>, dollar |-> <<"7">>, price |-> <<>>, cost |-> <<>>, from |-> <<>>, starting |-> <<>>]],
      [text |-> <<"A","s","u","s"," ","f","r","o","m"," ","8">>,
       captured |-> [aud |-> <<>>, dollar |-> <<>>, price |-> <<>>, cost |-> <<>>, from |-> <<"8">>, starting |-> <<>>]],
      [text |-> <<"L","e","n","o","v","o"," ","5","0","0">>,
       captured |-> [aud |-> <<>>, dollar |-> <<>>, price |-> <<>>, cost |-> <<>>, from |-> <<>>, starting |-> <<>>]],
      [text |-> <<"C","o","s","t",":"," ","3">>,
       captured |-> [aud |-> <<>>, dollar |-> <<>>, price |-> <<>>, cost |-> <<"3">>, from |-> <<>>, starting |-> <<>>]] }

\* extract_info([hit]) is called on a hit with a sample description and title.
InitPrice ==
    /\ entry = "extract_info"
    /\ pc = "web_search"
    /\ requirements = <<>>
    /\ use_llm = FALSE
    /\ products = <<>>
    /\ queries = <<>> /\ qi = 0
    /\ search_results \in
          { << [title |-> title.text, url |-> <<"h","t","t","p","s",":","/","/","a",".","a","u","/","x","1">>,
                description |-> description.text, source |-> <<"a",".","a","u">>] >> :
               title \in PricedTitles, description \in PricedDescriptions }
    /\ pi = 0 /\ scored_products = <<>> /\ ranked_products = <<>>
    /\ llm_raised = FALSE /\ query_reply = [kind |-> "none"] /\ last_call = [to |-> "none"]
    /\ outcome = "running" /\ exception = "" /\ result = <<>>
    /\ ProviderIdle

\* One extraction of one hit.
SpecPrice == InitPrice /\ [][ExtractInfo]_vars

-----------------------------------------------------------------------------
(* Properties of MultiAgentProductSearch.search (Spec) and of                *)
(* ProductFilteringAndRankingAgent.filter_and_rank (SpecRank).               *)

Indices(s) == 1..Len(s)

\* C1: no two items of the list returned by MultiAgentProductSearch.search have
\* the same url, whatever the search capability returned (the same url for
\* several queries included).
C1_NoTwoItemsShareUrl ==
    \A i, j \in Indices(result) : i # j => result[i].url # result[j].url

\* C2: when the scoring call of the assisted strategy has raised for at least
\* one product, filter_and_rank returns what _filter_and_rank_with_rules returns
\* on the same products and requirements.
C2_RaiseFallsBackToRules ==
    (entry = "filter_and_rank" /\ outcome = "returned" /\ use_llm /\ llm_raised)
        => result = filter_and_rank_with_rules(products, requirements)

\* The "queries" entry of the parsed response is missing or an empty list.
NoQueriesInReply ==
    /\ query_reply.kind = "text"
    /\ query_reply.json.type = "object"
    /\ Get(query_reply.json.members, "queries", <<>>) = <<>>

\* C3: the list generate_queries returns is never empty, and it is exactly the
\* one fallback query (product_type and the three marketplace-site filters)
\* when the response is valid JSON whose "queries" is missing or empty.
C3_QueriesNonEmptyWithFallback ==
    (query_reply.kind = "text" /\ exception # "NameError")
        => /\ queries # <<>>
           /\ NoQueriesInReply
                => queries = << FallbackQuery(Lower(requirements.product_type)) >>

\* The text-generation call of generate_queries raised, or answered with text
\* that is not valid JSON.
QueryCallFailed ==
    \/ query_reply.kind = "raise"
    \/ query_reply.kind = "text" /\ query_reply.json.type = "invalid"

\* C4: when the text-generation call of generate_queries raises or its text is
\* not valid JSON, generate_queries returns the single fallback query and no
\* exception reaches its caller.
C4_FailedCallGivesFallback ==
    QueryCallFailed
        => /\ exception # "NameError"
           /\ queries = << FallbackQuery(Lower(requirements.product_type)) >>

\* C5: no exception leaves MultiAgentProductSearch.search, whether the calls to
\* the text-generation and the search capability return or raise.
C5_SearchNeverRaises ==
    outcome # "raised"

\* C6: the list returned by MultiAgentProductSearch.search has at most 5 items
\* and relevance_score does not increase along it.
C6_AtMostFiveNonIncreasing ==
    outcome = "returned"
        => /\ Len(result) <= 5
           /\ \A i \in Indices(result) :
                 i < Len(result) => result[i].relevance_score >= result[i + 1].relevance_score

\* More than 5 products were ranked, with different scores; search() returned 5.
C6_Witness ==
    /\ outcome = "returned"
    /\ Len(ranked_products) > 5
    /\ Len(result) = 5
    /\ result[1].relevance_score > result[5].relevance_score

\* generate_queries has returned, and the search capability has answered every
\* generated query with an empty sequence.
EmptyAggregatorOutput ==
    /\ pc # "generate_queries"
    /\ exception # "NameError"
    /\ qi = Len(queries)
    /\ search_results = <<>>

\* C7: when the search capability returns an empty sequence for every generated
\* query, MultiAgentProductSearch.search raises no exception, goes on until it
\* returns, and returns the empty list.
C7_EmptyAggregatorGivesEmptyList ==
    EmptyAggregatorOutput
        => /\ outcome # "raised"
           /\ pc # "done" => ENABLED Next
           /\ pc = "done" => outcome = "returned" /\ result = <<>>

\* Two queries were generated, both answered with nothing; search() returned.
C7_Witness ==
    /\ EmptyAggregatorOutput
    /\ Len(queries) = 2
    /\ outcome = "returned"
    /\ result = <<>>

\* ^\d{1,3}(,\d{3})*(\.\d{2})?$ : d leading digits, g groups of a comma and three
\* digits, and f = 3 characters of fraction or none.
IsAmount(a) ==
    \E d \in 1..3, g \in 0..Len(a), f \in {0, 3} :
        /\ Len(a) = d + 4 * g + f
        /\ \A i \in 1..d : a[i] \in Digits
        /\ \A k \in 0..(g - 1) :
              /\ a[d + 4 * k + 1] = ","
              /\ \A i \in 2..4 : a[d + 4 * k + i] \in Digits
        /\ f = 3 => /\ a[d + 4 * g + 1] = "."
                    /\ a[d + 4 * g + 2] \in Digits
                    /\ a[d + 4 * g + 3] \in Digits

\* A sentinel, or "$" and an amount.
IsPrice(p) ==
    \/ p \in {PRICE_NOT_SPECIFIED, PRICE_NOT_AVAILABLE}
    \/ p # <<>> /\ Head(p) = "$" /\ IsAmount(Tail(p))

\* C8: the price of every item returned by MultiAgentProductSearch.search is
\* "Price not specified", "Price not available", or "$" followed by 1 to 3
\* digits, optional groups of a comma and 3 digits and an optional two-digit
\* fraction, whatever the price-estimation call returned.
C8_PriceShape ==
    outcome = "returned" => \A i \in Indices(result) : IsPrice(result[i].price)

\* search() returned an item priced by the estimator from "about 1200 AUD" (the
\* first three digits are taken: "$120"), and an item priced by the extractor.
C8_Witness ==
    /\ outcome = "returned"
    /\ \E i, j \in Indices(result) :
          /\ "is_estimated_price" \in DOMAIN result[i]
          /\ result[i].price = <<"$","1","2","0">>
          /\ "is_estimated_price" \notin DOMAIN result[j]
          /\ result[j].price = <<"$","1",",","2","9","9",".","0","0">>

\* The quality tier the thresholds 0.7 and 0.4 give a score.
TierOf(score) ==
    IF score >= 7 * (ScoreUnit \div 10) THEN "high"
    ELSE IF score >= 4 * (ScoreUnit \div 10) THEN "medium"
    ELSE "low"

\* C9: every relevance_score either strategy assigns lies in [0.0, 1.0], and a
\* product the rule-based strategy evaluated has the tier "high" exactly when
\* its score is >= 0.7, "medium" exactly when 0.4 <= score < 0.7, "low" otherwise.
C9_ScoreRangeAndTiers ==
    /\ \A i \in Indices(products) :
          "relevance_score" \in DOMAIN products[i]
              => /\ 0 <= products[i].relevance_score
                 /\ products[i].relevance_score <= ScoreUnit
                 /\ "additional_factors" \in DOMAIN products[i]
                      => products[i].additional_factors.overall_quality
                           = TierOf(products[i].relevance_score)
    /\ \A flags \in [1..5 -> BOOLEAN] :
          /\ 0 <= quality_score(flags)
          /\ quality_score(flags) <= ScoreUnit
          /\ overall_quality(quality_score(flags)) = TierOf(quality_score(flags))

\* The rule-based strategy has evaluated a "high" and a "medium" product.
C9_Witness ==
    /\ entry = "filter_and_rank"
    /\ outcome = "returned"
    /\ ~use_llm
    /\ \E i, j \in Indices(products) :
          /\ products[i].additional_factors.overall_quality = "high"
          /\ products[i].relevance_score >= 7000
          /\ products[j].additional_factors.overall_quality = "medium"
          /\ products[j].relevance_score < 7000

\* C10: every item filter_and_rank returns, under the assisted strategy as under
\* the rule-based one, carries a ranking_reason, the flags is_specific_product,
\* product_relevance and price_match, and a quality tier that its
\* relevance_score determines.
C10_RankedItemsCarryEvaluation ==
    (entry = "filter_and_rank" /\ outcome = "returned")
        => \A i \in Indices(result) :
              /\ {"ranking_reason", "is_specific_product", "product_relevance",
                  "price_match", "additional_factors"} \subseteq DOMAIN result[i]
              /\ result[i].additional_factors.overall_quality
                   = TierOf(result[i].relevance_score)

\* C11: in the list filter_and_rank returns (either strategy) an item with a
\* higher relevance_score precedes an item with a lower one, and items with
\* equal scores stand in the order they have in the input list.  f gives the
\* place in the input list of each returned item.
C11_StableDescending ==
    (entry = "filter_and_rank" /\ outcome = "returned")
        => \E f \in [Indices(result) -> Indices(products)] :
              /\ \A i \in Indices(result) : result[i] = products[f[i]]
              /\ \A i, j \in Indices(result) :
                    i < j => \/ result[i].relevance_score > result[j].relevance_score
                             \/ /\ result[i].relevance_score = result[j].relevance_score
                                /\ f[i] < f[j]

\* The rule-based strategy returned two different products with equal scores,
\* the first of the input list first.
C11_Witness ==
    /\ entry = "filter_and_rank"
    /\ outcome = "returned"
    /\ ~use_llm
    /\ Len(result) = 2
    /\ result[1] # result[2]
    /\ result[1].relevance_score = result[2].relevance_score
    /\ result[1] = products[1]

\* is_specific_product and product_relevance are true on the evaluated product
\* and its relevance_score is at least 0.3.
Qualifies(product) ==
    /\ product.is_specific_product
    /\ product.product_relevance
    /\ product.relevance_score >= 3 * (ScoreUnit \div 10)

\* C12: the rule-based strategy returns exactly the input products whose
\* is_specific_product and product_relevance are true and whose relevance_score
\* is >= 0.3; every other input product is absent from the result.
C12_RulesKeepExactlyQualifying ==
    (entry = "filter_and_rank" /\ outcome = "returned" /\ ~use_llm)
        => /\ Len(result) = Cardinality({i \in Indices(products) : Qualifies(products[i])})
           /\ \A i \in Indices(products) :
                 Qualifies(products[i]) <=> \E j \in Indices(result) : result[j] = products[i]

\* The rule-based strategy kept one product and dropped another whose score is
\* at least 0.3 but which fails one of the two tests.
C12_Witness ==
    /\ entry = "filter_and_rank"
    /\ outcome = "returned"
    /\ ~use_llm
    /\ Len(result) = 1
    /\ \E i, k \in Indices(products) :
          /\ result[1] = products[i]
          /\ Qualifies(products[i])
          /\ products[k].relevance_score >= 3000
          /\ ~products[k].product_relevance

\* The number a scoring response stands for, in units of 1/10000, and -1 when
\* it stands for none or the call raised: "0.9", " 0.5\n", "0.005", "1.5", "high".
NumberIn(reply) ==
    CASE reply.kind = "raise" -> -1
      [] reply.kind = "text" /\ reply.text = <<"0",".","9">> -> 9000
      [] reply.kind = "text" /\ reply.text = <<" ","0",".","5","\n">> -> 5000
      [] reply.kind = "text" /\ reply.text = <<"0",".","0","0","5">> -> 50
      [] reply.kind = "text" /\ reply.text = <<"1",".","5">> -> 15000
      [] reply.kind = "text" /\ reply.text = <<"h","i","g","h">> -> -1

\* One scoring call of the assisted strategy, on the product at place k: the
\* product gets the number of the response as its relevance_score and joins
\* scored_products when that number lies in [0, 1]; otherwise it is left as it
\* was, without a score, and does not join.  No other product changes.
ScoringStep ==
    (pc = "score" /\ pi' = pi + 1)
        => LET k == pi + 1
               s == NumberIn(last_call'.reply)
           IN  /\ last_call'.to = "score" /\ last_call'.about = k
               /\ \A j \in Indices(products) : j # k => products'[j] = products[j]
               /\ IF 0 <= s /\ s <= ScoreUnit
                  THEN /\ products'[k] = Update(products[k], [relevance_score |-> s])
                       /\ scored_products' = Append(scored_products, products'[k])
                  ELSE /\ products'[k] = products[k]
                       /\ scored_products' = scored_products

\* The assisted strategy has returned exactly the products that carry a
\* relevance_score of at least 0.01.
ScoredAtLeastMinReturned ==
    (entry = "filter_and_rank" /\ outcome = "returned" /\ use_llm)
        => LET kept(product) == /\ "relevance_score" \in DOMAIN product
                                /\ product.relevance_score >= ScoreUnit \div 100
           IN  /\ Len(result) = Cardinality({i \in Indices(products) : kept(products[i])})
               /\ \A i \in Indices(products) :
                     kept(products[i]) <=> \E j \in Indices(result) : result[j] = products[i]

\* C16: a product is in the result of _filter_and_rank_with_llm exactly when the
\* response to its scoring call is a number s with 0.01 <= s <= 1; any other
\* response drops that product only, gives it no score (not 0), and leaves the
\* other products and their scores as they were.
C16_ScoredExactlyWhenInRange ==
    [][ScoringStep]_vars /\ []ScoredAtLeastMinReturned

\* The first of two products was returned with the score 0.9 of its response;
\* the second, answered "high", was dropped and carries no score.
C16_Witness ==
    /\ entry = "filter_and_rank"
    /\ outcome = "returned"
    /\ use_llm
    /\ Len(products) = 2
    /\ last_call = Call("score", 2, Text(<<"h","i","g","h">>))
    /\ "relevance_score" \notin DOMAIN products[2]
    /\ result = << products[1] >>
    /\ result[1].relevance_score = 9000

\* The first currency-shaped number of an estimation response, without its "$",
\* and <<>> when the response holds none or the call raised: "$1,250.00",
\* "about 1200 AUD" (the shape takes at most three digits before a comma),
\* "unknown".
AmountIn(reply) ==
    CASE reply.kind = "raise" -> <<>>
      [] reply.kind = "text" /\ reply.text = <<"$","1",",","2","5","0",".","0","0">> -> <<"1",",","2","5","0",".","0","0">>
      [] reply.kind = "text" /\ reply.text = <<"a","b","o","u","t"," ","1","2","0","0"," ","A","U","D">> -> <<"1","2","0">>
      [] reply.kind = "text" /\ reply.text = <<"u","n","k","n","o","w","n">> -> <<>>

\* C17: for an item priced "Price not specified", _estimate_missing_prices sets
\* price to "$<amount>" and is_estimated_price to true when the estimation
\* response contains a currency-shaped number, and otherwise (no match, or the
\* call raises) sets price to "Price not available" and leaves
\* is_estimated_price unset; in both cases the item stays in the list.
C17_EstimateOrSentinel ==
    [][ (pc = "estimate" /\ pi' = pi + 1
            /\ ranked_products[pi + 1].price = PRICE_NOT_SPECIFIED)
        => LET k == pi + 1
               amount == AmountIn(last_call'.reply)
           IN  /\ last_call'.to = "estimate" /\ last_call'.about = k
               /\ Len(ranked_products') = Len(ranked_products)
               /\ IF amount # <<>>
                  THEN ranked_products'[k] =
                          Update(ranked_products[k],
                                 [price |-> <<"$">> \o amount, is_estimated_price |-> TRUE])
                  ELSE /\ ranked_products'[k] =
                             Update(ranked_products[k], [price |-> PRICE_NOT_AVAILABLE])
                       /\ "is_estimated_price" \notin DOMAIN ranked_products'[k] ]_vars

\* The pass has priced one item from "$1,250.00" and given another, whose call
\* raised, the sentinel "Price not available" without the flag.
C17_Witness ==
    /\ pc = "estimate"
    /\ last_call = Call("estimate", pi, Raise)
    /\ ranked_products[pi].price = PRICE_NOT_AVAILABLE
    /\ "is_estimated_price" \notin DOMAIN ranked_products[pi]
    /\ \E i \in 1..(pi - 1) :
          /\ ranked_products[i].price = <<"$","1",",","2","5","0",".","0","0">>
          /\ ranked_products[i].is_estimated_price

\* The fields of an item the estimation pass may write.
PriceFields == {"price", "is_estimated_price"}

\* C18: _estimate_missing_prices returns the same items in the same order as its
\* input, whatever the estimation calls do (success, unparsable response,
\* exception): every step of the pass keeps the length of the list, leaves every
\* item in its place, and changes no field of any item other than price and
\* is_estimated_price -- in particular no relevance_score.
C18_EstimationKeepsItemsAndOrder ==
    [][ pc = "estimate"
        => /\ Len(ranked_products') = Len(ranked_products)
           /\ \A i \in Indices(ranked_products) :
                 /\ DOMAIN ranked_products[i] \subseteq DOMAIN ranked_products'[i]
                 /\ DOMAIN ranked_products'[i] \ DOMAIN ranked_products[i] \subseteq PriceFields
                 /\ \A field \in DOMAIN ranked_products[i] \ PriceFields :
                       ranked_products'[i][field] = ranked_products[i][field]
                 /\ i # pi + 1 => ranked_products'[i] = ranked_products[i]
           /\ pc' = "done" => result' = TopProducts(ranked_products) ]_vars

\* The pass has run over three items: one estimate succeeded, one failed, one
\* item had a price, and the scores are still in descending order.
C18_Witness ==
    /\ entry = "search"
    /\ outcome = "returned"
    /\ Len(ranked_products) >= 3
    /\ \E i, j, k \in Indices(ranked_products) :
          /\ "is_estimated_price" \in DOMAIN ranked_products[i]
          /\ ranked_products[j].price = PRICE_NOT_AVAILABLE
          /\ ranked_products[k].price \notin {PRICE_NOT_AVAILABLE, PRICE_NOT_SPECIFIED}
          /\ "is_estimated_price" \notin DOMAIN ranked_products[k]
    /\ \A i \in 1..(Len(ranked_products) - 1) :
          ranked_products[i].relevance_score >= ranked_products[i + 1].relevance_score
    /\ ranked_products[1].relevance_score > ranked_products[Len(ranked_products)].relevance_score

\* The concatenation of the answers to the first n queries, when the answer to
\* query j is the first counts[j] entries of its index.
RECURSIVE AnswersTo(_, _, _)
AnswersTo(qs, counts, n) ==
    IF n = 0 THEN <<>>
    ELSE AnswersTo(qs, counts, n - 1) \o SearchIndex(qs[n], counts[n])

\* One step of the loop of WebSearchAgent.search: the capability is called with
\* the next query, in query order, and what it answers is appended whole.
SearchStep ==
    /\ (pc = "web_search" /\ qi' # qi)
          => /\ qi' = qi + 1
             /\ queries' = queries
             /\ last_call'.to = "search"
             /\ last_call'.about = queries[qi + 1]
             /\ last_call'.reply.kind = "hits"
             /\ search_results' = search_results \o last_call'.reply.hits
    /\ (pc = "web_search" /\ pc' = "filter_and_rank")
          => /\ qi = Len(queries)
             /\ search_results' = search_results

\* C19: WebSearchAgent.search calls the search capability exactly once per query,
\* in query order, and returns the concatenation of the per-query answers in
\* that order with duplicates kept; when every call answers with an empty
\* sequence the result is empty.
C19_ConcatenationInQueryOrder ==
    /\ [][SearchStep]_vars
    /\ [](\E counts \in [1..qi -> 0..SearchCount] :
             /\ search_results = AnswersTo(queries, counts, qi)
             /\ (\A j \in 1..qi : counts[j] = 0) <=> search_results = <<>>)

\* Two queries were answered, the second last, and a hit both answers hold is
\* twice in the result.
C19_Witness ==
    /\ pc = "filter_and_rank"
    /\ Len(queries) = 2
    /\ qi = 2
    /\ last_call.to = "search"
    /\ last_call.about = queries[2]
    /\ last_call.reply.hits # <<>>
    /\ Len(search_results) > Len(last_call.reply.hits)
    /\ \E i, j \in Indices(search_results) : i < j /\ search_results[i] = search_results[j]

\* The place of a capability call among the stages of search().
StageOf(call) ==
    CASE call.to = "none" -> 0
      [] call.to = "search" -> 1
      [] call.to = "score" -> 2
      [] call.to = "estimate" -> 3

\* One step of search() keeps the stages in sequence: the query-generation call
\* comes before any other call; each further call belongs to the stage of the
\* call before it or to a later one, and a scoring call is made only after the
\* last query was searched; the run returns a list only from the end of the
\* estimation pass, as the top of the list that pass walked, and makes no call
\* afterwards.
StagesInSequence ==
    /\ query_reply' # query_reply
          => /\ query_reply.kind = "none"
             /\ last_call.to = "none" /\ last_call' = last_call
    /\ last_call' # last_call
          => /\ query_reply.kind # "none"
             /\ outcome = "running"
             /\ StageOf(last_call') >= StageOf(last_call)
             /\ last_call'.to = "score" => qi = Len(queries)
             /\ last_call'.to = "estimate" => pc = "estimate"
    /\ (outcome = "running" /\ outcome' = "returned")
          => /\ pc = "estimate"
             /\ pi = Len(ranked_products)
             /\ result' = TopProducts(ranked_products)
    /\ pc = "estimate" => pc' \in {"estimate", "done"}

\* C25: in one run of MultiAgentProductSearch.search the stages execute strictly
\* in sequence: the query-generation call precedes every search call, every
\* search call precedes every scoring call, every scoring call precedes every
\* price-estimation call, and the truncation to the top 5 happens only after
\* the price-estimation pass over all ranked items has finished.
C25_StagesInSequence ==
    [][entry = "search" => StagesInSequence]_vars

\* search() has returned after calls of every stage: queries were generated,
\* hits found, the returned item scored, and the latest call an estimation.
C25_Witness ==
    /\ entry = "search"
    /\ outcome = "returned"
    /\ query_reply.kind = "text"
    /\ search_results # <<>>
    /\ last_call.to = "estimate"
    /\ result # <<>>
    /\ "relevance_score" \in DOMAIN result[1]

\* C28: _estimate_missing_prices issues exactly one text-generation call for
\* each item whose price equals "Price not specified" and none for any other
\* item: the pass visits the items one by one, each once; the step over an
\* unpriced item makes one call, about that item; the step over any other item
\* makes no call, keeps every field of the item and gives it no
\* is_estimated_price; and the return makes no call.
C28_OneCallPerUnpricedItem ==
    [][ pc = "estimate"
        => IF pi < Len(ranked_products)
           THEN /\ pi' = pi + 1
                /\ pc' = "estimate"
                /\ IF ranked_products[pi + 1].price = PRICE_NOT_SPECIFIED
                   THEN /\ last_call'.to = "estimate"
                        /\ last_call'.about = pi + 1
                        /\ last_call # last_call'
                   ELSE /\ last_call' = last_call
                        /\ ranked_products'[pi + 1] = ranked_products[pi + 1]
                        /\ "is_estimated_price" \notin DOMAIN ranked_products'[pi + 1]
           ELSE /\ pc' = "done"
                /\ last_call' = last_call ]_vars

\* The pass has made a call for one item and then stepped over a priced item
\* without a call: the last call is still the one about the item before.
C28_Witness ==
    /\ entry = "search"
    /\ pc = "estimate"
    /\ pi >= 2
    /\ last_call.to = "estimate"
    /\ last_call.about = pi - 1
    /\ ranked_products[pi].price \notin {PRICE_NOT_SPECIFIED, PRICE_NOT_AVAILABLE}
    /\ "is_estimated_price" \notin DOMAIN ranked_products[pi]
    /\ "is_estimated_price" \in DOMAIN ranked_products[pi - 1]

\* C29: every item _filter_and_rank_with_rules returns has relevance_score
\* >= 0.6 and the quality tier "medium" or "high", never "low"; and the test
\* relevance_score >= 0.3 rejects no product that passed the
\* is_specific_product and product_relevance tests, whatever the other three
\* flags are.
C29_ReturnedItemsScoreAtLeastSixTenths ==
    /\ (entry = "filter_and_rank" /\ outcome = "returned" /\ ~use_llm)
          => /\ \A j \in Indices(result) :
                   /\ result[j].relevance_score >= 6 * (ScoreUnit \div 10)
                   /\ result[j].additional_factors.overall_quality \in {"medium", "high"}
             /\ \A i \in Indices(products) :
                   (products[i].is_specific_product /\ products[i].product_relevance)
                       => /\ products[i].relevance_score >= 3 * (ScoreUnit \div 10)
                          /\ \E j \in Indices(result) : result[j] = products[i]
    /\ \A flags \in [1..5 -> BOOLEAN] :
          (flags[1] /\ flags[2])
              => /\ quality_score(flags) >= 6 * (ScoreUnit \div 10)
                 /\ overall_quality(quality_score(flags)) # "low"

\* The rule-based strategy returned an item whose score is exactly 0.6, tier
\* "medium", and dropped a product that scored 0.3 or more on other flags.
C29_Witness ==
    /\ entry = "filter_and_rank"
    /\ outcome = "returned"
    /\ ~use_llm
    /\ \E j \in Indices(result) :
          /\ result[j].relevance_score = 6 * (ScoreUnit \div 10)
          /\ result[j].additional_factors.overall_quality = "medium"
    /\ \E i \in Indices(products) :
          /\ products[i].relevance_score >= 3 * (ScoreUnit \div 10)
          /\ products[i].relevance_score < 6 * (ScoreUnit \div 10)
          /\ \A j \in Indices(result) : result[j] # products[i]

\* The price the extractor's patterns find in each hit of the catalogue.
CataloguePrices ==
    [n \in Indices(Catalogue) |->
        extract_price_with_patterns(Get(Catalogue[n], "description", <<>>) \o <<" ">>
                                    \o Get(Catalogue[n], "title", <<>>))]

\* The price the extractor gave the item: the one its patterns find in the
\* description and title of the hit the item was made from.
ExtractedPrice(item) ==
    CataloguePrices[CHOOSE n \in Indices(Catalogue) :
                       /\ Get(Catalogue[n], "url", <<>>) = item.url
                       /\ Get(Catalogue[n], "title", <<>>) = item.name
                       /\ Get(Catalogue[n], "description", <<>>) = item.description]

\* The item as the estimation pass leaves it: its price is "$<amount>" or
\* "Price not available"; with is_estimated_price it is true, the price is an
\* amount and the extractor had found none; without it the price is the
\* extractor's, or "Price not available".
PricedAfterPass(item) ==
    /\ item.price # PRICE_NOT_SPECIFIED
    /\ IsPrice(item.price)
    /\ IF "is_estimated_price" \in DOMAIN item
       THEN /\ item.is_estimated_price
            /\ Head(item.price) = "$"
            /\ ExtractedPrice(item) = PRICE_NOT_SPECIFIED
       ELSE \/ item.price = ExtractedPrice(item)
            \/ /\ item.price = PRICE_NOT_AVAILABLE
               /\ ExtractedPrice(item) = PRICE_NOT_SPECIFIED

\* C30: no item returned by MultiAgentProductSearch.search has the price
\* "Price not specified": every item the price-estimation pass has gone over,
\* and so every item search() returns, has a price that is "$<amount>" or
\* "Price not available", and is_estimated_price is true only on items whose
\* price the estimator wrote.
C30_NoUnspecifiedPriceReturned ==
    /\ (entry = "search" /\ pc = "estimate")
          => \A i \in 1..pi : PricedAfterPass(ranked_products[i])
    /\ (entry = "search" /\ outcome = "returned")
          => \A i \in Indices(result) : PricedAfterPass(result[i])

\* search() returned an item whose estimation failed and that carries "Price
\* not available" without the flag, after an item that kept the extractor's price.
C30_Witness ==
    /\ entry = "search"
    /\ outcome = "returned"
    /\ \E i, j \in Indices(result) :
          /\ i < j
          /\ result[i].price = ExtractedPrice(result[i])
          /\ result[j].price = PRICE_NOT_AVAILABLE
          /\ ExtractedPrice(result[j]) = PRICE_NOT_SPECIFIED
          /\ "is_estimated_price" \notin DOMAIN result[j]

-----------------------------------------------------------------------------
(* Properties of the rule-based strategy on one product (SpecRules). *)

\* The amount in cents a sample text stands for, -1 when it stands for none.
CentsOf(samples, text) ==
    (CHOOSE s \in samples : s.text = text).cents

Distance(a, b) ==
    IF a < b THEN b - a ELSE a - b

\* C13: price_match of an evaluated product is true exactly when its price and
\* the budget are both numbers, the budget is not zero and
\* |price - budget| / budget <= 0.2 (that is 5 * |price - budget| <= budget);
\* with an empty, zero or unparsable budget or a sentinel price it is false and
\* the product is evaluated all the same.
C13_PriceMatchWithinTolerance ==
    (entry = "filter_and_rank" /\ outcome = "returned")
        => LET price == CentsOf(SamplePrices, products[1].price)
               budget == CentsOf(SampleBudgets, requirements.budget)
           IN  /\ "relevance_score" \in DOMAIN products[1]
               /\ products[1].price_match
                    = (price >= 0 /\ budget > 0 /\ 5 * Distance(price, budget) <= budget)

\* An indicator of the list occurs in the text, letter case aside.
HasIndicator(indicators, text) ==
    \E n \in Indices(indicators) : Contains(Lower(text), indicators[n])

\* A category-page indicator occurs in the url, the name or the description.
HasCategoryIndicator(product) ==
    \/ HasIndicator(category_indicators, product.url)
    \/ HasIndicator(category_indicators, product.name)
    \/ HasIndicator(category_indicators, product.description)

\* The name holds a run of at least 4 characters that are capital letters or
\* digits.
HasUpperAlnumToken(name) ==
    \E i \in 1..(Len(name) - 3) : \A k \in 0..3 : name[i + k] \in UpperAlnum

\* C14: is_specific_product of an evaluated product is true exactly when no
\* category-page indicator occurs in its url, name or description and a
\* product-identifier keyword occurs in its url or name, or its name holds a
\* token of at least 4 uppercase-alphanumeric characters, or its name has at
\* least 4 words and a digit.
C14_SpecificProductRule ==
    (entry = "filter_and_rank" /\ outcome = "returned")
        => LET product == products[1]
           IN  product.is_specific_product
                 = /\ ~HasCategoryIndicator(product)
                   /\ \/ HasIndicator(product_indicators, product.url)
                      \/ HasIndicator(product_indicators, product.name)
                      \/ HasUpperAlnumToken(product.name)
                      \/ /\ WordCount(product.name) >= 4
                         /\ \E i \in Indices(product.name) : product.name[i] \in Digits

\* C15: a product whose url, name or description holds a category-page
\* indicator has is_specific_product = false, whatever its name, and is not in
\* the list the rule-based strategy returns.
C15_CategoryPagesNeverReturned ==
    (entry = "filter_and_rank" /\ outcome = "returned" /\ ~use_llm)
        => \A i \in Indices(products) :
              HasCategoryIndicator(products[i])
                  => /\ ~products[i].is_specific_product
                     /\ \A j \in Indices(result) : result[j] # products[i]

\* "Dell XPS 13 9310 Laptop" at a url holding "laptops-category", relevant to the
\* requirement, was evaluated as no specific product and not returned.
C15_Witness ==
    /\ entry = "filter_and_rank"
    /\ outcome = "returned"
    /\ Len(products) = 1
    /\ products[1].name = <<"D","e","l","l"," ","X","P","S"," ","1","3"," ","9","3","1","0"," ","L","a","p","t","o","p">>
    /\ products[1].url = <<"h","t","t","p","s",":","/","/","a",".","a","u","/","l","a","p","t","o","p","s","-","c","a","t","e","g","o","r","y">>
    /\ products[1].product_relevance
    /\ ~products[1].is_specific_product
    /\ result = <<>>

\* Two characters that are the same letter, in whichever case.
SameLetter(a, b) ==
    \/ a = b
    \/ a \in DOMAIN UpperToLower /\ UpperToLower[a] = b
    \/ b \in DOMAIN UpperToLower /\ UpperToLower[b] = a

\* word occurs in text, the case of the letters set aside.
OccursIn(word, text) ==
    \E i \in 1..(Len(text) - Len(word) + 1) :
       \A k \in 1..Len(word) : SameLetter(text[i + k - 1], word[k])

\* C26: in the rule-based strategy product_relevance is true exactly when the
\* requirement's product_type, compared case-insensitively, occurs in the
\* product's name or description and either no brand is specified in the
\* requirement or the brand occurs in the name or description.
C26_ProductRelevanceRule ==
    (entry = "filter_and_rank" /\ outcome = "returned" /\ ~use_llm)
        => \A i \in Indices(products) :
              "product_relevance" \in DOMAIN products[i]
                  => products[i].product_relevance
                        <=> /\ \/ OccursIn(requirements.product_type, products[i].name)
                               \/ OccursIn(requirements.product_type, products[i].description)
                            /\ \/ "brand" \notin DOMAIN requirements
                               \/ requirements.brand = <<>>
                               \/ OccursIn(requirements.brand, products[i].name)
                               \/ OccursIn(requirements.brand, products[i].description)

\* A product named 'Dell XPS 13 9310 Laptop' was found relevant to the product
\* type 'Laptop' of brand 'dell'.
C26_Witness ==
    /\ entry = "filter_and_rank"
    /\ outcome = "returned"
    /\ ~use_llm
    /\ requirements.product_type = <<"L","a","p","t","o","p">>
    /\ "brand" \in DOMAIN requirements
    /\ requirements.brand = <<"d","e","l","l">>
    /\ Len(products) = 1
    /\ products[1].name = <<"D","e","l","l"," ","X","P","S"," ","1","3"," ","9","3","1","0"," ","L","a","p","t","o","p">>
    /\ products[1].product_relevance

-----------------------------------------------------------------------------
(* Properties of InformationExtractionAgent.extract_info (SpecExtract). *)

\* A hit that gives a record: its title and its url are non-empty strings and
\* no field the extractor concatenates is null.
GivesRecord(hit) ==
    /\ "title" \in DOMAIN hit /\ hit.title # <<>> /\ hit.title # None
    /\ "url" \in DOMAIN hit /\ hit.url # <<>> /\ hit.url # None
    /\ "description" \in DOMAIN hit => hit.description # None

-----------------------------------------------------------------------------
(* Properties of extract_info under either strategy (SpecExtractBoth). *)

\* The fields of an extracted product.
ProductFields ==
    {"name", "price", "url", "source", "description", "key_specs", "delivery_time"}

\* C21: every record extract_info emits has all seven fields name, price, url,
\* source, description, key_specs and delivery_time, under the assisted strategy
\* (whatever JSON object the text-generation call returns) as under the
\* deterministic one.
C21_SevenFieldsUnderBothStrategies ==
    entry = "extract_info"
        => \A i \in Indices(products) : ProductFields \subseteq DOMAIN products[i]

\* The outcomes of the extraction call that are a failure: the call raises, or
\* answers "not json".
FailedExtractReplies ==
    { Raise, Text(<<"n","o","t"," ","j","s","o","n">>) }

\* The hit's four fields passed through, every extracted field a sentinel.
Passthrough(hit) ==
    [name |-> Get(hit, "title", <<>>),
     url |-> Get(hit, "url", <<>>),
     description |-> Get(hit, "description", <<>>),
     source |-> Get(hit, "source", <<>>),
     price |-> PRICE_NOT_SPECIFIED,
     key_specs |-> <<>>,
     delivery_time |-> DELIVERY_NOT_SPECIFIED]

\* An assisted extraction step whose call failed appends the passthrough record
\* of the hit when the hit has a title and a url, and nothing otherwise.
FailedExtractionStep ==
    (pc = "extract" /\ pi' = pi + 1 /\ last_call'.reply \in FailedExtractReplies)
        => LET hit == search_results[pi + 1]
           IN  products' =
                  products \o (IF /\ Get(hit, "title", <<>>) \notin {<<>>, None}
                                  /\ Get(hit, "url", <<>>) \notin {<<>>, None}
                               THEN << Passthrough(hit) >> ELSE <<>>)

\* C22: in the assisted strategy, when the text-generation call raises or its
\* response is not valid JSON, _extract_with_llm returns the hit's title, url,
\* description and source unchanged, with price "Price not specified", empty
\* key_specs and delivery_time "Delivery time not specified"; the deterministic
\* pattern extraction is not run.
C22_FailedCallGivesPassthrough ==
    /\ [][FailedExtractionStep]_vars
    /\ [](\A i \in Indices(search_results) : \A reply \in FailedExtractReplies :
             extract_with_llm(search_results[i], reply).value = Passthrough(search_results[i]))

\* The call for a hit whose description holds the price "From $999" answered
\* "not json": the record appended has that description and no price.
C22_Witness ==
    /\ entry = "extract_info"
    /\ use_llm
    /\ pi >= 1
    /\ last_call = Call("extract", pi, Text(<<"n","o","t"," ","j","s","o","n">>))
    /\ extract_with_rules(search_results[pi]).price = <<"$","9","9","9">>
    /\ products # <<>>
    /\ products[Len(products)].description = search_results[pi].description
    /\ products[Len(products)].name = search_results[pi].title
    /\ products[Len(products)].price = PRICE_NOT_SPECIFIED

-----------------------------------------------------------------------------
(* Properties of BraveSearchProvider.search (SpecBraveOne, SpecBraveTwo). *)

\* The call of search() has seen nothing but throttling responses.
OnlyThrottled(call) ==
    \A i \in Indices(call.responses) : call.responses[i] = "429"

\* What holds of one call at every moment when the key is set: at most three
\* requests, no exception, and after nothing but throttling responses an empty
\* list, three requests and two waits of one and two times rate_limit_delay.
BoundedAndQuiet(call) ==
    /\ requests.count <= 3
    /\ Len(call.responses) <= requests.count
    /\ call.outcome # "raised"
    /\ call.pc = "done"
         => /\ call.outcome = "returned"
            /\ OnlyThrottled(call)
                 => /\ call.result = <<>>
                    /\ requests.count = 3
                    /\ Len(call.responses) = 3
                    /\ call.waits = << rate_limit_delay, 2 * rate_limit_delay >>

\* A call asleep for a wait wakes no earlier than the wait after the response
\* that caused it.
WaitsAreSlept ==
    \A t \in DOMAIN calls :
       (calls[t].pc = "request" /\ calls[t].waits # <<>>)
           => now >= last_request_time + calls[t].waits[Len(calls[t].waits)]
              \/ calls[t].responses[Len(calls[t].responses)] = "exception"

\* C23: with an API key set, BraveSearchProvider.search issues at most 3 HTTP
\* requests per call and, whatever the statuses and transport exceptions,
\* ends by returning a list without raising; when every response is a 429 it
\* returns an empty list after exactly 3 requests, having waited 1 and then 2
\* times rate_limit_delay between them.
C23_BoundedRetriesAndTermination ==
    /\ [](api_key => BoundedAndQuiet(calls[1]) /\ WaitsAreSlept)
    /\ <>(calls[1].pc = "done")

\* The call has returned the empty list after three throttling responses and
\* waits of one and two times rate_limit_delay.
C23_Witness ==
    /\ entry = "brave_search"
    /\ DOMAIN calls = {1}
    /\ api_key
    /\ calls[1].pc = "done"
    /\ calls[1].responses = <<"429", "429", "429">>
    /\ calls[1].waits = << rate_limit_delay, 2 * rate_limit_delay >>
    /\ calls[1].result = <<>>
    /\ requests.count = 3

\* C24: when two search calls on the same BraveSearchProvider run concurrently,
\* any two HTTP requests the provider issues are at least rate_limit_delay
\* apart, in every interleaving.
C24_RequestsSpacedUnderConcurrency ==
    requests.closest >= rate_limit_delay

-----------------------------------------------------------------------------
(* Properties of _extract_price_with_patterns (SpecPrice). *)

\* The patterns in their priority order: currency-prefixed, dollar-prefixed,
\* "Price:", "Cost:", "From", "Starting at".
PriorityOrder == << "aud", "dollar", "price", "cost", "from", "starting" >>

\* What a pattern captures in description + " " + title: what it captures in
\* the description, and failing that what it captures in the title.
CapturedBy(pattern, hit) ==
    LET in_description == (CHOOSE d \in PricedDescriptions : d.text = hit.description).captured
        in_title == (CHOOSE x \in PricedTitles : x.text = hit.title).captured
    IN  IF in_description[pattern] # <<>> THEN in_description[pattern] ELSE in_title[pattern]

\* "$" and the amount of the first pattern in priority order that captures
\* one; "Price not specified" when none does.
PriceByPriority(hit) ==
    LET matching == {n \in Indices(PriorityOrder) : CapturedBy(PriorityOrder[n], hit) # <<>>}
    IN  IF matching = {} THEN PRICE_NOT_SPECIFIED
        ELSE <<"$">> \o CapturedBy(PriorityOrder[Least(matching)], hit)

\* C27: _extract_price_with_patterns, applied to description + " " + title,
\* returns "$" and the amount captured by the first pattern that matches in
\* the fixed priority order, the priority and not the position in the text
\* deciding between several matches; "Price not specified" when no pattern
\* matches; and "$1,299.00" for the description "Price: $1,299.00" (with a
\* title that holds no currency-prefixed amount).
C27_FirstPatternInPriorityOrder ==
    (entry = "extract_info" /\ pc = "filter_and_rank" /\ Len(search_results) = 1
        /\ \E d \in PricedDescriptions : d.text = search_results[1].description)
        => /\ Len(products) = 1
           /\ products[1].price = PriceByPriority(search_results[1])
           /\ (/\ search_results[1].description = <<"P","r","i","c","e",":"," ","$","1",",","2","9","9",".","0","0">>
               /\ CapturedBy("aud", search_results[1]) = <<>>)
                 => products[1].price = <<"$","1",",","2","9","9",".","0","0">>

\* From the description '$30 now AUD 1,499' the price "$1,499" was extracted:
\* the currency-prefixed pattern won over the dollar-prefixed one, whose match
\* comes first in the text.
C27_Witness ==
    /\ entry = "extract_info"
    /\ pc = "filter_and_rank"
    /\ Len(search_results) = 1
    /\ search_results[1].description = <<"$","3","0"," ","n","o","w"," ","A","U","D"," ","1",",","4","9","9">>
    /\ Len(products) = 1
    /\ products[1].price = <<"$","1",",","4","9","9">>

====
